---- MODULE Spec2Model ----
(***************************************************************************)
(* Retrieval-augmented answer pipeline of Peter-Attia-RAG:                 *)
(*   PrismaService.vectorSimilaritySearch, SearchService.searchDocuments,  *)
(*   RagService.generateAnswer, EmbeddingService.generateEmbeddings,       *)
(*   DocumentsService.generateMissingEmbeddings and the entry points that  *)
(*   resolve the retrieval parameters (TelegramService.handleQuestion and  *)
(*   the DocumentsController ask endpoints), SearchService.chunkText,      *)
(*   DocumentsService.processDocument alone and called concurrently, the   *)
(*   Telegram bot's handling of a text update, TelegramService.            *)
(*   extractQuotes and EmbeddingService.calculateCosineSimilarity.         *)
(*                                                                         *)
(* Numbers that the code keeps as floats in [-1, 2] (cosine distance,      *)
(* similarity, thresholds) are kept in hundredths: 0.3 is 30, 1.0 is 100.  *)
(* calculateCosineSimilarity alone is computed in the doubles of the code. *)
(***************************************************************************)
EXTENDS Integers, Sequences, FiniteSets, TLC

\* ------------------------------------------------------------------ bounds
NumChunks == 3
MaxRuns == 2
MaxPieces == 3
MaxIngests == 2
MaxRows == 21
MaxRejected == 2

\* ------------------------------------------------------- JavaScript values
\* Every JavaScript number of the model is an integer; the two non-numbers a
\* number-typed expression can hold are integers no computation produces.
Undefined == 0 - 1000001
NaN == 0 - 1000002

\* a NULL embedding column
NULL == <<>>

\* x || d on a number: the default replaces undefined, NaN and 0
OrDefault(x, d) == IF x \in {Undefined, NaN, 0} THEN d ELSE x

\* x || d on a string: the default replaces the absent and the empty string
\* (an absent string property is kept as "")
OrDefaultString(x, d) == IF x = "" THEN d ELSE x

\* a NULL numeric column, read as null
SqlNull == 0 - 1000003

\* Number(x) of a value read from a row
Number(x) == IF x = Undefined THEN NaN ELSE IF x = SqlNull THEN 0 ELSE x

\* a + b
Plus(a, b) == IF a \in {NaN, Undefined} \/ b \in {NaN, Undefined} THEN NaN ELSE a + b

\* Math.min(a, b)
MathMin(a, b) == IF a = NaN \/ b = NaN THEN NaN ELSE IF a <= b THEN a ELSE b

\* row.f : reading a property the row does not have yields undefined
Field(row, f) == IF f \in DOMAIN row THEN row[f] ELSE Undefined

Min(a, b) == IF a <= b THEN a ELSE b

Range(s) == {s[i] : i \in DOMAIN s}

\* ------------------------------------------------------------------ corpus
Chunks == 1..NumChunks

\* document_chunks.document_id (foreign key into documents)
DocumentId(c) == IF c <= 2 THEN 1 ELSE 2

\* document_chunks.chunk_index: position of the chunk inside its document
ChunkIndex(c) == IF c <= 2 THEN c - 1 ELSE c - 3

\* documents.filename
Filename(d) == IF d = 1 THEN "a.pdf" ELSE "b.pdf"

\* document_chunks.content
Content(c) == <<"content", c>>

\* embedding vectors; all of Euclidean norm 5, so cosines are exact hundredths
Vectors == {<<5, 0>>, <<4, 3>>, <<0, 5>>, <<-3, 4>>}

\* the vectors stored chunks start with
StoredVectors == {<<5, 0>>, <<4, 3>>}

Dot(a, b) == a[1] * b[1] + a[2] * b[2]

Sqrt(n) == CHOOSE r \in 0..n : r * r <= n /\ (r + 1) * (r + 1) > n

\* pgvector  a <=> b : cosine distance, 1 - cosine similarity (hundredths)
CosineDistance(a, b) == 100 - ((100 * Dot(a, b)) \div (Sqrt(Dot(a, a)) * Sqrt(Dot(b, b))))


\* ------------------------------------------------------- similarity index
\* one row of the SELECT of vectorSimilaritySearch: the column list is
\* id, content, document_id, filename, file_type, distance
Row(c, emb, queryEmbedding) ==
    [id |-> c,
     content |-> Content(c),
     document_id |-> DocumentId(c),
     filename |-> Filename(DocumentId(c)),
     file_type |-> "pdf",
     distance |-> CosineDistance(emb[c], queryEmbedding)]

\* WHERE dc.embedding IS NOT NULL AND (dc.embedding <=> q) < threshold
Matches(c, emb, queryEmbedding, threshold) ==
    /\ emb[c] # NULL
    /\ CosineDistance(emb[c], queryEmbedding) < threshold

\* ORDER BY dc.embedding <=> q  LIMIT limit : every outcome the database may
\* produce (rows at equal distance come in any order); emb holds the embedding
\* column of the rows of document_chunks, one entry per row of the table
vectorSimilaritySearch(emb, queryEmbedding, limit, threshold) ==
    LET matching == {c \in DOMAIN emb : Matches(c, emb, queryEmbedding, threshold)}
        n == Min(limit, Cardinality(matching))
        dist(c) == CosineDistance(emb[c], queryEmbedding)
        orders == {s \in [1..n -> matching] :
                     /\ \A i, j \in 1..n : i < j => s[i] # s[j] /\ dist(s[i]) <= dist(s[j])
                     /\ \A c \in matching \ Range(s) : \A i \in 1..n : dist(s[i]) <= dist(c)}
    IN {[i \in 1..n |-> Row(s[i], emb, queryEmbedding)] : s \in orders}

\* searchResults.map(result => ({...})) of searchDocuments
SearchResultDto(result) ==
    [content |-> result.content,
     similarity |-> Number(Field(result, "similarity")),
     documentFilename |-> result.filename,
     chunkIndex |-> Number(Field(result, "chunk_index")),
     documentId |-> result.document_id,
     chunkId |-> result.id]

\* the arguments searchDocuments hands to vectorSimilaritySearch
SearchLimit(searchDto) == OrDefault(searchDto.limit, 5)
SearchThreshold(searchDto) == OrDefault(searchDto.threshold, 70)

\* error messages, outermost wrapper first
EmbeddingError(cause) == <<"Embedding generation failed">> \o cause

\* searchDocuments rethrowing the error it caught as it is
SearchErrorRethrown(cause) == cause

SearchError(cause) == <<"Search failed">> \o cause

AnswerError(cause) == <<"Answer generation failed">> \o cause

\* what a remote call (OpenAI, PostgreSQL) reports when it throws
RemoteErrors == {<<"Connection error.">>}


\* ---------------------------------------- SearchService: the other searches
\* the table with only the rows of S left
Restrict(emb, S) == [c \in DOMAIN emb \cap S |-> emb[c]]

\* ORDER BY ... ASC places a NULL key after every number
NullsLast == 1000

\* dc.embedding <=> q as a sort key
OrderKey(e, q) == IF e = NULL THEN NullsLast ELSE CosineDistance(e, q)

\* dc.embedding <=> q as a column: NULL for a NULL embedding
SqlDistance(e, q) == IF e = NULL THEN SqlNull ELSE CosineDistance(e, q)

\* one row of the SELECT of searchInDocument: the column list is id, content,
\* document_id, chunk_index, filename, file_type, distance, similarity
DocumentRow(c, emb, queryEmbedding) ==
    [id |-> c,
     content |-> Content(c),
     document_id |-> DocumentId(c),
     chunk_index |-> ChunkIndex(c),
     filename |-> Filename(DocumentId(c)),
     file_type |-> "pdf",
     distance |-> SqlDistance(emb[c], queryEmbedding),
     similarity |-> IF emb[c] = NULL THEN SqlNull
                    ELSE 100 - CosineDistance(emb[c], queryEmbedding)]

\* the WHERE of searchInDocument with the IS NOT NULL test lost: rows without
\* an embedding pass
MatchesInDocumentWithoutNullTest(c, documentId, emb, queryEmbedding, threshold) ==
    /\ DocumentId(c) = documentId
    /\ \/ emb[c] = NULL
       \/ CosineDistance(emb[c], queryEmbedding) <= 100 - threshold

\* WHERE dc.document_id = documentId AND dc.embedding IS NOT NULL
\*   AND (dc.embedding <=> q) <= 1 - threshold
MatchesInDocument(c, documentId, emb, queryEmbedding, threshold) ==
    /\ DocumentId(c) = documentId
    /\ emb[c] # NULL
    /\ CosineDistance(emb[c], queryEmbedding) <= 100 - threshold

\* the raw query of searchInDocument: ORDER BY dc.embedding <=> q LIMIT limit
searchInDocumentQuery(documentId, emb, queryEmbedding, limit, threshold) ==
    LET matching == {c \in DOMAIN emb :
                        MatchesInDocument(c, documentId, emb, queryEmbedding, threshold)}
        n == Min(limit, Cardinality(matching))
        key(c) == OrderKey(emb[c], queryEmbedding)
        orders == {s \in [1..n -> matching] :
                     /\ \A i, j \in 1..n : i < j => s[i] # s[j] /\ key(s[i]) <= key(s[j])
                     /\ \A c \in matching \ Range(s) : \A i \in 1..n : key(s[i]) <= key(c)}
    IN {[i \in 1..n |-> DocumentRow(s[i], emb, queryEmbedding)] : s \in orders}

\* what a search of SearchService returns or throws
Found(results) == [ok |-> TRUE, results |-> results, error |-> <<>>]
NotFound(error) == [ok |-> FALSE, results |-> <<>>, error |-> error]

DocumentSearchError(cause) == <<"Document search failed">> \o cause

\* SearchService.searchInDocument, the query embedding given
searchInDocument(documentId, emb, queryEmbedding, limit, threshold) ==
    {Found([i \in 1..Len(rows) |-> SearchResultDto(rows[i])]) :
        rows \in searchInDocumentQuery(documentId, emb, queryEmbedding, limit, threshold)}
    \cup {NotFound(DocumentSearchError(cause)) : cause \in RemoteErrors}

\* SearchService.searchDocuments, the query embedding given: steps 2 and 3
searchDocuments(emb, queryEmbedding, searchDto) ==
    {Found([i \in 1..Len(rows) |-> SearchResultDto(rows[i])]) :
        rows \in vectorSimilaritySearch(emb, queryEmbedding,
                                        SearchLimit(searchDto), SearchThreshold(searchDto))}
    \cup {NotFound(SearchError(cause)) : cause \in RemoteErrors}

\* the text PostgreSQL returns for a vector column, and JSON.parse of it
VectorText(v) == <<"[", v[1], ",", v[2], "]">>
JsonParse(text) == <<text[2], text[4]>>

SimilarChunksError(cause) == <<"Similar chunks search failed">> \o cause

\* searchResults.filter(result => result.id !== chunkId)
FilterOutSource(rows, chunkId) == SelectSeq(rows, LAMBDA result : result.id # chunkId)

\* .slice(0, limit)
Slice(rows, limit) == SubSeq(rows, 1, Min(limit, Len(rows)))

\* SearchService.findSimilarChunks
findSimilarChunks(chunkId, emb, limit, threshold) ==
    LET \* SELECT embedding, content FROM document_chunks WHERE id = chunkId
        sourceChunk == IF chunkId \in DOMAIN emb
                       THEN <<IF emb[chunkId] = NULL THEN NULL ELSE VectorText(emb[chunkId])>>
                       ELSE <<>>
    IN IF Len(sourceChunk) = 0 \/ sourceChunk[1] = NULL
       THEN {NotFound(SimilarChunksError(<<"Source chunk not found or has no embedding">>))}
       ELSE {Found([i \in 1..Len(kept) |-> SearchResultDto(kept[i])]) :
                kept \in {Slice(FilterOutSource(rows, chunkId), limit) :
                            rows \in vectorSimilaritySearch(emb, JsonParse(sourceChunk[1]),
                                                            limit + 1, threshold)}}
            \cup {NotFound(SimilarChunksError(cause)) : cause \in RemoteErrors}

\* -------------------------------------------------------------- RagService
\* confidence is kept in 1/ConfidenceScale of a hundredth, which makes the
\* average of up to 8 similarities (the largest limit of the mode table) exact
ConfidenceScale == 8 * 7 * 5 * 3

RECURSIVE SumSimilarity(_)
\* searchResults.reduce((sum, result) => sum + result.similarity, 0)
SumSimilarity(searchResults) ==
    IF searchResults = <<>> THEN 0
    ELSE Plus(SumSimilarity(SubSeq(searchResults, 1, Len(searchResults) - 1)),
              searchResults[Len(searchResults)].similarity)

calculateConfidence(searchResults) ==
    IF Len(searchResults) = 0 THEN 0
    ELSE LET sum == SumSimilarity(searchResults)
             avgSimilarity == IF sum = NaN THEN NaN
                              ELSE (sum * ConfidenceScale) \div Len(searchResults)
             resultCount == Min(Len(searchResults), 5)
             countBonus == resultCount * 4 * ConfidenceScale
         IN MathMin(Plus(avgSimilarity, countBonus), 100 * ConfidenceScale)

\* the file names of the context without the Set: context.map(...) alone
extractSourcesWithDuplicates(context) ==
    [i \in 1..Len(context) |-> context[i].documentFilename]

RECURSIVE extractUniqueSources(_)
\* Array.from(new Set(context.map(chunk => chunk.documentFilename)))
extractUniqueSources(context) ==
    IF context = <<>> THEN <<>>
    ELSE LET before == extractUniqueSources(SubSeq(context, 1, Len(context) - 1))
             name == context[Len(context)].documentFilename
         IN IF name \in Range(before) THEN before ELSE Append(before, name)

NoContextAnswerRu == "no relevant information (ru)"
NoContextAnswerEn == "no relevant information (en)"

createNoContextResponse(query) ==
    [answer |-> IF query.language = "ru" THEN NoContextAnswerRu ELSE NoContextAnswerEn,
     question |-> query.question,
     context |-> <<>>,
     contextCount |-> 0,
     confidence |-> 0,
     sources |-> <<>>,
     responseMode |-> OrDefaultString(query.responseMode, "detailed"),
     language |-> OrDefaultString(query.language, "auto")]

\* the response object generateAnswer builds after the generation call
RagResponse(query, results, answer) ==
    [answer |-> answer,
     question |-> query.question,
     context |-> results,
     contextCount |-> Len(results),
     confidence |-> calculateConfidence(results),
     sources |-> extractUniqueSources(results),
     responseMode |-> OrDefaultString(query.responseMode, "detailed"),
     language |-> OrDefaultString(query.language, "auto")]

\* the zero-result test written as a test that never succeeds
NoContextNever(results) == Len(results) < 0

\* if (searchResults.results.length === 0) return createNoContextResponse
NoContext(results) == Len(results) = 0

\* the searchDto generateAnswer builds from the request
RagSearchDto(query) ==
    [query |-> query.question,
     limit |-> OrDefault(query.maxContextChunks, 5),
     threshold |-> OrDefault(query.similarityThreshold, 30)]

\* what the chat completion of generateLLMResponse can come back with: no
\* choices, a first choice without content, one with empty content, a text
NoChoices == "no choices"
NoContent == "no content"
LlmText == "generated answer"
Completions == {NoChoices, NoContent, "", LlmText}
Placeholder == "Unable to generate response"

\* response.choices[0].message?.content || 'Unable to generate response'
CompletionAnswer(completion) ==
    IF completion = NoContent THEN Placeholder ELSE OrDefaultString(completion, Placeholder)


\* ------------------------------------------------------------ entry points
\* question texts of 15, 49 and 50 characters
Questions == {"zone 2 training",
              "What does zone 2 training do for mitochondria now",
              "What does zone 2 training do for my mitochondria ?"}

Modes == {"quick", "detailed", "auto"}

\* the RagQueryDto TelegramService.handleQuestion passes to generateAnswer
HandleQuestionQuery(question, responseMode, maxContextChunks, similarityThreshold) ==
    [question |-> question,
     responseMode |-> responseMode,
     maxContextChunks |-> maxContextChunks,
     similarityThreshold |-> similarityThreshold,
     language |-> "auto"]

\* the auto boundary with <= in place of <
ResolveModeInclusive(mode, question) ==
    IF mode = "quick"
    THEN HandleQuestionQuery(question, "concise", 3, 30)
    ELSE IF mode = "detailed"
    THEN HandleQuestionQuery(question, "detailed", 8, 20)
    ELSE IF Len(question) <= 50
    THEN HandleQuestionQuery(question, "concise", 3, 30)
    ELSE HandleQuestionQuery(question, "detailed", 5, 25)

\* TelegramService.handleQuestion: the retrieval parameters of each mode
ResolveMode(mode, question) ==
    IF mode = "quick"
    THEN HandleQuestionQuery(question, "concise", 3, 30)
    ELSE IF mode = "detailed"
    THEN HandleQuestionQuery(question, "detailed", 8, 20)
    ELSE IF Len(question) < 50
    THEN HandleQuestionQuery(question, "concise", 3, 30)
    ELSE HandleQuestionQuery(question, "detailed", 5, 25)

\* DocumentsController.askQuickQuestion
QuickQuery(question) ==
    [question |-> question, responseMode |-> "concise",
     maxContextChunks |-> 3, similarityThreshold |-> 30, language |-> ""]

\* DocumentsController.askDetailedQuestion
DetailedQuery(question) ==
    [question |-> question, responseMode |-> "detailed",
     maxContextChunks |-> 8, similarityThreshold |-> 20, language |-> ""]

\* request bodies of POST ask that pass the validation of RagQueryDto:
\* maxContextChunks absent or an integer in 1..20, similarityThreshold absent
\* or a number in 0.0 .. 1.0
RagQueryDto(question, maxContextChunks, similarityThreshold, language) ==
    [question |-> question,
     responseMode |-> "",
     maxContextChunks |-> maxContextChunks,
     similarityThreshold |-> similarityThreshold,
     language |-> language]

MaxContextChunksInputs == {Undefined, 1}
SimilarityThresholdInputs == {Undefined, 0, 90}
LanguageInputs == {"", "ru"}

\* ------------------------------------------------------------------- state
VARIABLES
    embedding,        \* document_chunks.embedding of every chunk (NULL or a vector)
    searchLog,        \* the rows of search_logs, oldest first
    pc,               \* where the current generateAnswer call stands
    entry,            \* the entry point (and mode) that started the call
    query,            \* the RagQueryDto of the call
    searchDto,        \* the SearchDocumentsDto generateAnswer passed on
    queryEmbedding,   \* the embedding of the question
    searchResults,    \* the rows vectorSimilaritySearch returned
    results,          \* the SearchResultDto list of searchDocuments
    generationCalls,  \* chat completions requested during the call
    logRejected,      \* a log write of this call was rejected by the store
    outcome,          \* how the call ended: "answer", "nocontext" or "failed"
    response,         \* the RagResponseDto returned
    error,            \* the message of the Error thrown
    failedStage,      \* the stage whose exception ended the call
    gmePc,            \* where the generateMissingEmbeddings run stands
    chunksWithoutEmbeddings, \* the chunk ids the run selected, oldest first
    batchStart,       \* i, the index of the first chunk of the current batch
    batchIndex,       \* j, the index inside the current batch
    embeddings,       \* the vectors generateEmbeddings returned for the batch
    processed,        \* chunks whose UPDATE succeeded
    failed,           \* chunks counted as failed
    report,           \* the object the run returns
    lastBatch,        \* the latest batch: its chunks, the remote response, the result
    runs,             \* generateMissingEmbeddings runs started so far
    rejected,         \* UPDATEs the store rejected during the run
    searchCall,       \* the latest direct call of a SearchService search
    chunkCall,        \* the latest call of ParsersService.chunkText
    documents,        \* the rows of documents: content per (filename, dropboxPath)
    documentChunks,   \* the rows of document_chunks that processDocument wrote
    nextChunkId,      \* the id the next created chunk row gets
    ingests,          \* processDocument calls made so far
    lastIngest,       \* what the latest processDocument call returned
    calls,            \* the processDocument calls that overlap in time, each with its locals
    run,              \* the state of each overlapping generateMissingEmbeddings run
    writes,           \* how often each chunk's embedding column was written
    update,           \* the Telegram update processWebhookUpdate received
    botPc,            \* where the handling of the update stands
    botMode,          \* the mode handleQuestion was called with
    botQuestion,      \* the question handleQuestion was called with
    pending,          \* the message about to be sent and the block that sends it
    replies,          \* the messages delivered to the chat, oldest first
    ragCalls,         \* the queries passed to generateAnswer
    ragOutcome,       \* how generateAnswer ended for the update
    deliveryFailed,   \* a call of the Telegram API failed
    thrown,           \* an exception left processWebhookUpdate
    quoteCall,        \* the latest call of TelegramService.extractQuotes
    cosineCall        \* the latest call of calculateCosineSimilarity

ragVars == <<searchLog, pc, entry, query, searchDto, queryEmbedding,
             searchResults, results, generationCalls, logRejected, outcome,
             response, error, failedStage>>

gmeVars == <<gmePc, chunksWithoutEmbeddings, batchStart, batchIndex, embeddings,
             processed, failed, report, lastBatch, runs, rejected>>

searchVars == <<searchCall>>

chunkerVars == <<chunkCall>>

ingestVars == <<documents, documentChunks, nextChunkId, ingests, lastIngest, calls>>

overlapVars == <<run, writes>>

telegramVars == <<update, botPc, botMode, botQuestion, pending, replies, ragCalls,
                  ragOutcome, deliveryFailed, thrown>>

quoteVars == <<quoteCall>>

cosineVars == <<cosineCall>>

moreVars == <<telegramVars, quoteVars, cosineVars>>

\* the state of the operations a specification leaves out
otherVars == <<searchVars, chunkerVars, ingestVars, overlapVars, moreVars>>

\* the values of the variables of an operation that has not been called
NoSearch ==
    [op |-> "none", chunkId |-> 0, documentId |-> 0, queryEmbedding |-> NULL,
     limit |-> 0, threshold |-> 0, ok |-> TRUE, results |-> <<>>, error |-> <<>>]

SearchIdle == searchCall = NoSearch

ChunkerIdle == chunkCall = [none |-> TRUE]

IngestIdle ==
    /\ documents = <<>>
    /\ documentChunks = {}
    /\ nextChunkId = 1
    /\ ingests = 0
    /\ lastIngest = [success |-> FALSE, failure |-> "none", documentId |-> 0,
                     existed |-> FALSE, chunks |-> 0, firstChunkId |-> 0]
    /\ calls = <<>>

OverlapIdle ==
    /\ run = <<>>
    /\ writes = <<>>

NoMessage == [kind |-> "none", block |-> "none", russian |-> FALSE]

TelegramIdle ==
    /\ update = [none |-> TRUE]
    /\ botPc = "idle"
    /\ botMode = "none"
    /\ botQuestion = <<>>
    /\ pending = NoMessage
    /\ replies = <<>>
    /\ ragCalls = <<>>
    /\ ragOutcome = "none"
    /\ deliveryFailed = FALSE
    /\ thrown = FALSE

QuoteIdle == quoteCall = [none |-> TRUE]

CosineIdle == cosineCall = [none |-> TRUE]

MoreIdle == TelegramIdle /\ QuoteIdle /\ CosineIdle

NoResponse == [none |-> TRUE]
NoQuery == [none |-> TRUE]

RagInit ==
    /\ searchLog = <<>>
    /\ pc = "idle"
    /\ entry = [kind |-> "none", mode |-> "none"]
    /\ query = NoQuery
    /\ searchDto = NoQuery
    /\ queryEmbedding = NULL
    /\ searchResults = <<>>
    /\ results = <<>>
    /\ generationCalls = 0
    /\ logRejected = FALSE
    /\ outcome = "none"
    /\ response = NoResponse
    /\ error = <<>>
    /\ failedStage = "none"

\* ---------------------------------------------- RagService.generateAnswer
\* the call starts: const searchResults = await searchDocuments({...})
BeginGenerateAnswer(kind, mode, ragQuery) ==
    /\ pc = "idle"
    /\ entry' = [kind |-> kind, mode |-> mode]
    \* the properties of the request the call reads
    /\ query' = [question |-> ragQuery.question,
                 responseMode |-> ragQuery.responseMode,
                 maxContextChunks |-> ragQuery.maxContextChunks,
                 similarityThreshold |-> ragQuery.similarityThreshold,
                 language |-> ragQuery.language]
    /\ searchDto' = RagSearchDto(ragQuery)
    /\ pc' = "embedding"
    /\ queryEmbedding' = NULL
    /\ searchResults' = <<>>
    /\ results' = <<>>
    /\ generationCalls' = 0
    /\ logRejected' = FALSE
    /\ outcome' = "none"
    /\ response' = NoResponse
    /\ error' = <<>>
    /\ failedStage' = "none"
    /\ UNCHANGED <<embedding, searchLog>>
    /\ UNCHANGED <<gmeVars, otherVars>>

\* TelegramService.handleQuestion
HandleQuestion ==
    \E mode \in Modes, question \in Questions :
        BeginGenerateAnswer("telegram", mode, ResolveMode(mode, question))

\* DocumentsController.askQuestion
AskQuestion ==
    \E m \in MaxContextChunksInputs, t \in SimilarityThresholdInputs, l \in LanguageInputs :
        BeginGenerateAnswer("ask", "none", RagQueryDto("zone 2 training", m, t, l))

AskQuickQuestion ==
    \E question \in Questions : BeginGenerateAnswer("ask/quick", "quick", QuickQuery(question))

AskDetailedQuestion ==
    \E question \in Questions :
        BeginGenerateAnswer("ask/detailed", "detailed", DetailedQuery(question))

\* catch (error) { throw new Error(`Answer generation failed: ${error.message}`) }
Throw(message, stage) ==
    /\ outcome' = "failed"
    /\ error' = AnswerError(message)
    /\ failedStage' = stage
    /\ response' = NoResponse
    /\ pc' = "done"

\* searchDocuments step 1: embeddingService.generateEmbedding(query)
GenerateEmbedding ==
    /\ pc = "embedding"
    /\ \/ \E v \in Vectors :
            /\ queryEmbedding' = v
            /\ pc' = "index"
            /\ UNCHANGED <<outcome, error, failedStage, response>>
       \/ \E cause \in RemoteErrors \cup {<<"No embedding data received from OpenAI">>} :
            /\ Throw(SearchError(EmbeddingError(cause)), "retrieval")
            /\ UNCHANGED queryEmbedding
    /\ UNCHANGED <<embedding, searchLog, entry, query, searchDto,
                   searchResults, results, generationCalls, logRejected>>
    /\ UNCHANGED <<gmeVars, otherVars>>

\* searchDocuments steps 2 and 3: the index lookup and the mapping to DTOs
VectorSimilaritySearch ==
    /\ pc = "index"
    /\ \/ \E rows \in vectorSimilaritySearch(embedding, queryEmbedding,
                                             SearchLimit(searchDto), SearchThreshold(searchDto)) :
            /\ searchResults' = rows
            /\ results' = [i \in 1..Len(rows) |-> SearchResultDto(rows[i])]
            /\ pc' = "logSearch"
            /\ UNCHANGED <<outcome, error, failedStage, response>>
       \/ \E cause \in RemoteErrors :
            /\ Throw(SearchError(cause), "retrieval")
            /\ UNCHANGED <<searchResults, results>>
    /\ UNCHANGED <<embedding, searchLog, entry, query, searchDto,
                   queryEmbedding, generationCalls, logRejected>>
    /\ UNCHANGED <<gmeVars, otherVars>>

\* SearchService.logSearch: a rejected write is caught and logged as a warning
logSearchThrows(accepted) == FALSE

\* searchDocuments step 4 (logSearch), its return, and the zero-result branch
\* of generateAnswer
LogSearch ==
    /\ pc = "logSearch"
    /\ \E accepted \in BOOLEAN :
        /\ searchLog' = IF accepted
                        THEN Append(searchLog, [query |-> searchDto.query,
                                                results |-> [count |-> Len(results)]])
                        ELSE searchLog
        /\ logRejected' = (logRejected \/ ~accepted)
        /\ IF logSearchThrows(accepted)
           THEN Throw(SearchError(<<"log write rejected">>), "logging")
           ELSE IF NoContext(results)
           THEN /\ outcome' = "nocontext"
                /\ response' = createNoContextResponse(query)
                /\ pc' = "done"
                /\ UNCHANGED <<error, failedStage>>
           ELSE /\ pc' = "generation"
                /\ UNCHANGED <<outcome, response, error, failedStage>>
    /\ UNCHANGED <<embedding, entry, query, searchDto, queryEmbedding,
                   searchResults, results, generationCalls>>
    /\ UNCHANGED <<gmeVars, otherVars>>

\* generateLLMResponse and the assembly of the response (steps 2 to 4)
GenerateLLMResponse ==
    /\ pc = "generation"
    /\ generationCalls' = generationCalls + 1
    /\ \/ \E cause \in RemoteErrors : Throw(cause, "generation")
       \/ \E completion \in Completions :
            IF completion = NoChoices
            THEN Throw(<<"No response generated from OpenAI">>, "generation")
            ELSE /\ response' = RagResponse(query, results, CompletionAnswer(completion))
                 /\ pc' = "logRag"
                 /\ UNCHANGED <<outcome, error, failedStage>>
    /\ UNCHANGED <<embedding, searchLog, entry, query, searchDto,
                   queryEmbedding, searchResults, results, logRejected>>
    /\ UNCHANGED <<gmeVars, otherVars>>

\* logRagInteraction without its try/catch
logRagInteractionRethrows(accepted) == ~accepted

\* RagService.logRagInteraction: a rejected write is caught and logged as a warning
logRagInteractionThrows(accepted) == FALSE

\* step 5 (logRagInteraction) and the return of the response
LogRagInteraction ==
    /\ pc = "logRag"
    /\ \E accepted \in BOOLEAN :
        /\ searchLog' = IF accepted
                        THEN Append(searchLog, [query |-> query.question,
                                                results |-> [contextCount |-> response.contextCount,
                                                             confidence |-> response.confidence,
                                                             sources |-> response.sources,
                                                             responseMode |-> response.responseMode,
                                                             language |-> response.language]])
                        ELSE searchLog
        /\ logRejected' = (logRejected \/ ~accepted)
        /\ IF logRagInteractionThrows(accepted)
           THEN Throw(<<"log write rejected">>, "logging")
           ELSE /\ outcome' = "answer"
                /\ pc' = "done"
                /\ UNCHANGED <<response, error, failedStage>>
    /\ UNCHANGED <<embedding, entry, query, searchDto, queryEmbedding,
                   searchResults, results, generationCalls>>
    /\ UNCHANGED <<gmeVars, otherVars>>

\* --------------------------------------------------------- EmbeddingService
\* the vector the embedding model computes for a text
EmbeddingOf(text) == IF text[2] % 2 = 1 THEN <<5, 0>> ELSE <<4, 3>>

\* what openai.embeddings.create can come back with for a batch of texts: it
\* throws, it answers without data, or it answers with data holding the
\* vectors in input order, complete, short of one, or with one too many
RemoteEmbeddingResponses(texts) ==
    LET full == [j \in 1..Len(texts) |-> [index |-> j - 1, embedding |-> EmbeddingOf(texts[j])]]
    IN {[thrown |-> TRUE, cause |-> cause, data |-> <<>>] : cause \in RemoteErrors}
       \cup {[thrown |-> FALSE, cause |-> <<>>, data |-> d] :
               d \in {full,
                      SubSeq(full, 1, Len(full) - 1),
                      SubSeq(full, 2, Len(full)),
                      Append(full, [index |-> Len(full), embedding |-> <<0, 5>>]),
                      <<>>}}

BatchEmbeddingError(cause) == <<"Batch embedding generation failed">> \o cause

\* generateEmbeddings without the comparison of the two lengths
generateEmbeddingsUnchecked(texts, remote) ==
    IF remote.thrown
    THEN [ok |-> FALSE, embeddings |-> <<>>, error |-> BatchEmbeddingError(remote.cause)]
    ELSE [ok |-> TRUE,
          embeddings |-> [j \in 1..Len(remote.data) |-> remote.data[j].embedding],
          error |-> <<>>]

\* EmbeddingService.generateEmbeddings
generateEmbeddings(texts, remote) ==
    IF remote.thrown
    THEN [ok |-> FALSE, embeddings |-> <<>>, error |-> BatchEmbeddingError(remote.cause)]
    ELSE IF Len(remote.data) # Len(texts)
    THEN [ok |-> FALSE, embeddings |-> <<>>,
          error |-> BatchEmbeddingError(<<"Expected", Len(texts), "embeddings, got", Len(remote.data)>>)]
    ELSE [ok |-> TRUE,
          embeddings |-> [j \in 1..Len(remote.data) |-> remote.data[j].embedding],
          error |-> <<>>]

\* ------------------------------ DocumentsService.generateMissingEmbeddings
batchSize == 10

NoReport == [none |-> TRUE]
NoBatch == [chunks |-> <<>>, remote |-> [thrown |-> FALSE, cause |-> <<>>, data |-> <<>>],
            result |-> [ok |-> TRUE, embeddings |-> <<>>, error |-> <<>>]]

GmeInit ==
    /\ gmePc = "idle"
    /\ chunksWithoutEmbeddings = <<>>
    /\ batchStart = 0
    /\ batchIndex = 0
    /\ embeddings = <<>>
    /\ processed = 0
    /\ failed = 0
    /\ report = NoReport
    /\ lastBatch = NoBatch
    /\ runs = 0
    /\ rejected = 0

RECURSIVE SortedSeq(_)
\* the elements of a set of chunk ids in creation order (ORDER BY created_at ASC)
SortedSeq(S) ==
    IF S = {} THEN <<>>
    ELSE LET last == CHOOSE x \in S : \A y \in S : y <= x
         IN Append(SortedSeq(S \ {last}), last)

\* chunksWithoutEmbeddings.slice(i, i + batchSize)
Batch(selected, i) == SubSeq(selected, i + 1, Min(i + batchSize, Len(selected)))

\* the object returned at the end of the run
GmeReport(total, p, f) ==
    [message |-> "Embedding generation completed",
     totalChunks |-> total,
     chunksWithoutEmbeddings |-> total - p - f,
     processed |-> p,
     failed |-> f]

\* the object returned when no chunk lacks an embedding
NothingToDoReport(total) ==
    [message |-> "All chunks already have embeddings",
     totalChunks |-> total,
     chunksWithoutEmbeddings |-> total,
     processed |-> total,
     failed |-> total]

\* a run starts (POST generate-embeddings, again once the previous run has
\* returned): the SELECT of the chunks without embedding, and the early return
GmeSelect ==
    /\ gmePc \in {"idle", "done"}
    /\ runs < MaxRuns
    /\ runs' = runs + 1
    /\ LET selected == SortedSeq({c \in DOMAIN embedding : embedding[c] = NULL})
       IN /\ chunksWithoutEmbeddings' = selected
          /\ IF Len(selected) = 0
             THEN /\ report' = NothingToDoReport(Len(selected))
                  /\ gmePc' = "done"
             ELSE /\ report' = NoReport
                  /\ gmePc' = "batch"
    /\ batchStart' = 0
    /\ batchIndex' = 0
    /\ embeddings' = <<>>
    /\ processed' = 0
    /\ failed' = 0
    /\ rejected' = 0
    /\ lastBatch' = NoBatch
    /\ UNCHANGED embedding
    /\ UNCHANGED <<ragVars, otherVars>>

\* the for loop if a batch whose embedding call failed ended the run
AbortOnFailedBatch(p, f) ==
    /\ batchStart' = batchStart + batchSize
    /\ IF batchStart + batchSize < Len(chunksWithoutEmbeddings) /\ gmePc # "batch"
       THEN /\ gmePc' = "batch"
            /\ report' = report
       ELSE /\ gmePc' = "done"
            /\ report' = GmeReport(Len(chunksWithoutEmbeddings), p, f)

\* i += batchSize, and the end of the for loop
NextBatch(p, f) ==
    /\ batchStart' = batchStart + batchSize
    /\ IF batchStart + batchSize < Len(chunksWithoutEmbeddings)
       THEN /\ gmePc' = "batch"
            /\ report' = report
       ELSE /\ gmePc' = "done"
            /\ report' = GmeReport(Len(chunksWithoutEmbeddings), p, f)

\* one iteration of the outer loop up to the answer of generateEmbeddings
GmeBatch ==
    /\ gmePc = "batch"
    /\ LET batch == Batch(chunksWithoutEmbeddings, batchStart)
           contents == [j \in 1..Len(batch) |-> Content(batch[j])]
       IN \E remote \in RemoteEmbeddingResponses(contents) :
            LET r == generateEmbeddings(contents, remote)
            IN /\ lastBatch' = [chunks |-> batch, remote |-> remote, result |-> r]
               /\ embeddings' = r.embeddings
               /\ batchIndex' = 0
               /\ IF r.ok
                  THEN /\ gmePc' = "update"
                       /\ UNCHANGED <<failed, batchStart, report>>
                  ELSE /\ failed' = failed + Len(batch)
                       /\ NextBatch(processed, failed + Len(batch))
    /\ UNCHANGED <<embedding, chunksWithoutEmbeddings, processed, runs, rejected>>
    /\ UNCHANGED <<ragVars, otherVars>>

\* one iteration of the inner loop: the UPDATE of one chunk of the batch
GmeUpdate ==
    /\ gmePc = "update"
    /\ LET batch == Batch(chunksWithoutEmbeddings, batchStart)
           j == batchIndex + 1
           last == (j = Len(batch))
       IN \E accepted \in IF rejected < MaxRejected THEN BOOLEAN ELSE {TRUE} :
            LET done == j \in DOMAIN embeddings /\ accepted
                p == IF done THEN processed + 1 ELSE processed
                f == IF done THEN failed ELSE failed + 1
            IN /\ embedding' = IF done THEN [embedding EXCEPT ![batch[j]] = embeddings[j]]
                                ELSE embedding
               /\ processed' = p
               /\ failed' = f
               /\ rejected' = IF accepted THEN rejected ELSE rejected + 1
               /\ batchIndex' = j
               /\ IF last THEN NextBatch(p, f)
                  ELSE UNCHANGED <<gmePc, batchStart, report>>
    /\ UNCHANGED <<chunksWithoutEmbeddings, embeddings, lastBatch, runs>>
    /\ UNCHANGED <<ragVars, otherVars>>

\* -------------------------------------------------- ParsersService.chunkText
\* a text is the sequence of its characters; indices of the code count from 0
Whitespace == {" ", "\n"}

Max(a, b) == IF a >= b THEN a ELSE b

RECURSIVE FirstKept(_, _, _)
\* the first position in from..to that holds no whitespace, or 0
FirstKept(text, from, to) ==
    IF from > to THEN 0
    ELSE IF from = to THEN (IF text[from] \in Whitespace THEN 0 ELSE from)
    ELSE LET middle == (from + to) \div 2
             before == FirstKept(text, from, middle)
         IN IF before # 0 THEN before ELSE FirstKept(text, middle + 1, to)

RECURSIVE LastKept(_, _, _)
\* the last position in from..to that holds no whitespace, or 0
LastKept(text, from, to) ==
    IF from > to THEN 0
    ELSE IF from = to THEN (IF text[from] \in Whitespace THEN 0 ELSE from)
    ELSE LET middle == (from + to) \div 2
             after == LastKept(text, middle + 1, to)
         IN IF after # 0 THEN after ELSE LastKept(text, from, middle)

TrimStart(text) ==
    LET first == FirstKept(text, 1, Len(text))
    IN IF first = 0 THEN <<>> ELSE SubSeq(text, first, Len(text))

TrimEnd(text) == SubSeq(text, 1, LastKept(text, 1, Len(text)))

\* text.trim()
Trim(text) == TrimEnd(TrimStart(text))

\* text.lastIndexOf(ch, fromIndex): the last index <= fromIndex holding ch, or -1
lastIndexOf(text, ch, fromIndex) ==
    LET at == {i \in 0..Min(fromIndex, Len(text) - 1) : text[i + 1] = ch}
    IN IF at = {} THEN 0 - 1 ELSE CHOOSE i \in at : \A k \in at : k <= i

\* text.substring(start, end)
substring(text, start, end) == SubSeq(text, start + 1, end)

\* the next window start if it could stay where it is
NextStartWithoutProgress(endIndex, overlap, startIndex) == Max(endIndex - overlap, startIndex)

\* startIndex = Math.max(endIndex - overlap, startIndex + 1)
NextStart(endIndex, overlap, startIndex) == Max(endIndex - overlap, startIndex + 1)

\* one iteration of the while loop of chunkText; loop holds startIndex, the
\* chunks pushed so far and the window (startIndex, endIndex) of every
\* iteration made, and stays as it is once the loop has ended
ChunkStep(text, maxChunkSize, overlap, loop) ==
    IF ~(loop.startIndex < Len(text)) THEN loop
    ELSE LET startIndex == loop.startIndex
             windowEnd == Min(startIndex + maxChunkSize, Len(text))
             lastSentence == lastIndexOf(text, ".", windowEnd)
             lastNewline == lastIndexOf(text, "\n", windowEnd)
             breakPoint == Max(lastSentence, lastNewline)
             \* breakPoint > startIndex + maxChunkSize * 0.5
             endIndex == IF windowEnd < Len(text) /\ 2 * breakPoint > 2 * startIndex + maxChunkSize
                         THEN breakPoint + 1
                         ELSE windowEnd
             chunk == Trim(substring(text, startIndex, endIndex))
         IN [startIndex |-> NextStart(endIndex, overlap, startIndex),
             chunks |-> IF Len(chunk) > 0 THEN Append(loop.chunks, chunk) ELSE loop.chunks,
             windows |-> Append(loop.windows, <<startIndex, endIndex>>)]

RECURSIVE ChunkSteps(_, _, _, _, _)
\* n iterations of the loop, one after the other
ChunkSteps(text, maxChunkSize, overlap, loop, n) ==
    IF n = 0 THEN loop
    ELSE IF n = 1 THEN ChunkStep(text, maxChunkSize, overlap, loop)
    ELSE LET half == ChunkSteps(text, maxChunkSize, overlap, loop, n \div 2)
         IN IF ~(half.startIndex < Len(text)) THEN half
            ELSE ChunkSteps(text, maxChunkSize, overlap, half, n - (n \div 2))

\* the while loop of chunkText, followed for at most Len(text) iterations
ChunkLoopEnd(text, maxChunkSize, overlap) ==
    ChunkSteps(text, maxChunkSize, overlap,
               [startIndex |-> 0, chunks |-> <<>>, windows |-> <<>>], Len(text))

\* the chunks the while loop pushed
ChunkLoop(text, maxChunkSize, overlap) == ChunkLoopEnd(text, maxChunkSize, overlap).chunks

\* ParsersService.chunkText(text, maxChunkSize, overlap)
chunkText(text, maxChunkSize, overlap) ==
    IF Len(text) <= maxChunkSize THEN <<text>>
    ELSE SelectSeq(ChunkLoop(text, maxChunkSize, overlap), LAMBDA chunk : Len(chunk) > 50)

\* texts: a word of n letters, a sentence, a line, blanks, and "A. B. C. "
Word(n) == [i \in 1..n |-> "a"]
Sentence(n) == Word(n) \o <<".", " ">>
Line(n) == Word(n) \o <<"\n">>
Pieces == {Sentence(55), Sentence(8), Line(20), <<" ", " ">>,
           <<"A", ".", " ", "B", ".", " ", "C", ".", " ">>}

RECURSIVE Flatten(_)
Flatten(pieces) == IF pieces = <<>> THEN <<>> ELSE Head(pieces) \o Flatten(Tail(pieces))

\* every text made of at most MaxPieces pieces, the empty text included
Texts == {Flatten(pieces) : pieces \in UNION {[1..n -> Pieces] : n \in 0..MaxPieces}}

\* the (maxChunkSize, overlap) pairs of the calls; the last is the default
ChunkParameters ==
    {<<1, 1>>, <<10, 0>>, <<10, 2>>, <<10, 20>>, <<60, 0>>, <<60, 20>>, <<1000, 200>>}

\* a call of chunkText returns
ChunkText ==
    /\ chunkCall = [none |-> TRUE]
    /\ \E text \in Texts, parameters \in ChunkParameters :
          LET loop == IF Len(text) <= parameters[1]
                      THEN [startIndex |-> 0, chunks |-> <<>>, windows |-> <<>>]
                      ELSE ChunkLoopEnd(text, parameters[1], parameters[2])
          IN chunkCall' = [text |-> text,
                           maxChunkSize |-> parameters[1],
                           overlap |-> parameters[2],
                           chunks |-> chunkText(text, parameters[1], parameters[2]),
                           \* the loop where the iterations followed stop
                           looped |-> Len(text) > parameters[1],
                           startIndex |-> loop.startIndex,
                           windows |-> loop.windows]
    /\ UNCHANGED <<embedding, ragVars, gmeVars, searchVars, ingestVars, overlapVars, moreVars>>

\* ------------------------------------------ DocumentsService.processDocument
\* chunk occurs in text at index p
OccursAt(text, chunk, p) == \A k \in 1..Len(chunk) : text[p + k] = chunk[k]

RECURSIVE FirstOccurrence(_, _, _, _)
\* the first index in from..to at which chunk occurs in text, or -1
FirstOccurrence(text, chunk, from, to) ==
    IF from > to THEN 0 - 1
    ELSE IF from = to THEN (IF OccursAt(text, chunk, from) THEN from ELSE 0 - 1)
    ELSE LET middle == (from + to) \div 2
             before == FirstOccurrence(text, chunk, from, middle)
         IN IF before # 0 - 1 THEN before
            ELSE FirstOccurrence(text, chunk, middle + 1, to)

\* content.indexOf(chunk): the first index at which chunk occurs, or -1
indexOf(text, chunk) == FirstOccurrence(text, chunk, 0, Len(text) - Len(chunk))

\* the Dropbox files that are ingested
Files == {[name |-> "a.txt", path |-> "/notes/a.txt"],
          [name |-> "b.txt", path |-> "/notes/b.txt"]}

\* a text of 20 sentences, 1140 characters: longer than the default chunk size
LongText == Flatten([i \in 1..20 |-> Sentence(55)])

\* contents of a file: empty, short, a sentence and a line, long
Contents == {<<>>,
             <<"A", ".", " ", "B", ".", " ", "C", ".", " ">>,
             Sentence(55) \o Line(20),
             LongText}

\* the await of processDocument that throws (a rejected parse returns without
\* throwing); the creation of the first or of the last chunk stands for the loop
Failures == {"none", "parseDocument", "findFirst", "document", "deleteMany",
             "firstChunk", "lastChunk"}

DefaultMaxChunkSize == 1000
DefaultOverlap == 200

\* the rows documentChunk.create writes for the first n chunks
CreatedChunks(documentId, content, chunks, n, firstId) ==
    {LET chunk == chunks[i]
         startPos == indexOf(content, chunk)
         endPos == startPos + Len(chunk)
     IN [id |-> firstId + i - 1,
         documentId |-> documentId,
         content |-> chunk,
         chunkIndex |-> i - 1,
         startPosition |-> startPos,
         endPosition |-> endPos] : i \in 1..n}

\* the whole of processDocument, up to its return or to the await that throws
ProcessDocument ==
    /\ ingests < MaxIngests
    /\ ingests' = ingests + 1
    /\ \E file \in Files, content \in Contents :
        LET \* parseText: buffer.toString('utf8')
            parsedContent == content
            existing == {i \in DOMAIN documents :
                            /\ documents[i].filename = file.name
                            /\ documents[i].dropboxPath = file.path}
            existingDoc == CHOOSE i \in existing : TRUE
            id == IF existing # {} THEN existingDoc ELSE Len(documents) + 1
            written == IF existing # {}
                       THEN [documents EXCEPT ![id].content = parsedContent]
                       ELSE Append(documents, [id |-> id,
                                               filename |-> file.name,
                                               dropboxPath |-> file.path,
                                               content |-> parsedContent])
            kept == {row \in documentChunks : row.documentId # id}
            chunks == chunkText(parsedContent, DefaultMaxChunkSize, DefaultOverlap)
        IN \E failure \in Failures :
            /\ failure = "deleteMany" => existing # {}
            /\ failure \in {"firstChunk", "lastChunk"} => Len(chunks) > 0
            /\ IF failure \in {"parseDocument", "findFirst", "document"}
               THEN UNCHANGED <<documents, documentChunks, nextChunkId>>
               ELSE IF failure = "deleteMany"
               THEN /\ documents' = written
                    /\ UNCHANGED <<documentChunks, nextChunkId>>
               ELSE LET n == IF failure = "firstChunk" THEN 0
                             ELSE IF failure = "lastChunk" THEN Len(chunks) - 1
                             ELSE Len(chunks)
                    IN /\ documents' = written
                       /\ documentChunks' =
                            kept \cup CreatedChunks(id, parsedContent, chunks, n, nextChunkId)
                       /\ nextChunkId' = nextChunkId + n
            /\ lastIngest' = [success |-> failure = "none",
                              failure |-> failure,
                              documentId |-> id,
                              existed |-> existing # {},
                              chunks |-> IF failure = "none" THEN Len(chunks) ELSE 0,
                              firstChunkId |-> nextChunkId]
    /\ UNCHANGED calls
    /\ UNCHANGED <<embedding, ragVars, gmeVars, searchVars, chunkerVars, overlapVars, moreVars>>

\* ------------------------------ processDocument: calls that overlap in time
\* the calls in flight (process-all, process-single and process-all-detailed
\* can run at the same time)
Callers == {1, 2}

\* a text the chunker cuts in two chunks: 16 sentences and 150 blanks
TwoChunkText == Flatten([i \in 1..16 |-> Sentence(55)]) \o [i \in 1..150 |-> " "]

\* contents of a file: one chunk, two chunks
RaceContents == {Sentence(55) \o Line(20), TwoChunkText}

NoCall == [pc |-> "none"]

\* a call starts: parseDocument has returned the content of the file
CallParse(p) ==
    /\ calls[p].pc = "none"
    /\ \E file \in Files, content \in RaceContents :
          calls' = [calls EXCEPT ![p] = [pc |-> "findFirst",
                                         filename |-> file.name,
                                         dropboxPath |-> file.path,
                                         content |-> content,
                                         existingDoc |-> 0,
                                         documentId |-> 0,
                                         chunks |-> <<>>,
                                         i |-> 0]]
    /\ UNCHANGED <<documents, documentChunks, nextChunkId, ingests, lastIngest>>
    /\ UNCHANGED <<embedding, ragVars, gmeVars, searchVars, chunkerVars, overlapVars, moreVars>>

\* await prisma.document.findFirst({where: {filename, dropboxPath}}): a row
\* that matches, or null (0)
CallFindFirst(p) ==
    /\ calls[p].pc = "findFirst"
    /\ LET existing == {d \in DOMAIN documents :
                           /\ documents[d].filename = calls[p].filename
                           /\ documents[d].dropboxPath = calls[p].dropboxPath}
       IN \E found \in IF existing = {} THEN {0} ELSE existing :
            calls' = [calls EXCEPT ![p].pc = "document", ![p].existingDoc = found]
    /\ UNCHANGED <<documents, documentChunks, nextChunkId, ingests, lastIngest>>
    /\ UNCHANGED <<embedding, ragVars, gmeVars, searchVars, chunkerVars, overlapVars, moreVars>>

\* await prisma.document.update(...) or await prisma.document.create(...)
CallWriteDocument(p) ==
    /\ calls[p].pc = "document"
    /\ IF calls[p].existingDoc # 0
       THEN /\ documents' = [documents EXCEPT ![calls[p].existingDoc].content = calls[p].content]
            /\ calls' = [calls EXCEPT ![p].pc = "deleteMany",
                                      ![p].documentId = calls[p].existingDoc]
       ELSE /\ documents' = Append(documents, [id |-> Len(documents) + 1,
                                              filename |-> calls[p].filename,
                                              dropboxPath |-> calls[p].dropboxPath,
                                              content |-> calls[p].content])
            /\ calls' = [calls EXCEPT ![p].pc = "create",
                                      ![p].documentId = Len(documents) + 1,
                                      ![p].chunks = chunkText(calls[p].content,
                                                              DefaultMaxChunkSize, DefaultOverlap)]
    /\ UNCHANGED <<documentChunks, nextChunkId, ingests, lastIngest>>
    /\ UNCHANGED <<embedding, ragVars, gmeVars, searchVars, chunkerVars, overlapVars, moreVars>>

\* await prisma.documentChunk.deleteMany({where: {documentId}}), then chunkText
CallDeleteMany(p) ==
    /\ calls[p].pc = "deleteMany"
    /\ documentChunks' = {row \in documentChunks : row.documentId # calls[p].existingDoc}
    /\ calls' = [calls EXCEPT ![p].pc = "create",
                              ![p].chunks = chunkText(calls[p].content,
                                                      DefaultMaxChunkSize, DefaultOverlap)]
    /\ UNCHANGED <<documents, nextChunkId, ingests, lastIngest>>
    /\ UNCHANGED <<embedding, ragVars, gmeVars, searchVars, chunkerVars, overlapVars, moreVars>>

\* one iteration of the for loop: await prisma.documentChunk.create(...); the
\* call returns when the loop has ended
CallCreateChunk(p) ==
    /\ calls[p].pc = "create"
    /\ IF calls[p].i < Len(calls[p].chunks)
       THEN LET chunk == calls[p].chunks[calls[p].i + 1]
                startPos == indexOf(calls[p].content, chunk)
            IN /\ documentChunks' = documentChunks \cup
                                        {[id |-> nextChunkId,
                                          documentId |-> calls[p].documentId,
                                          content |-> chunk,
                                          chunkIndex |-> calls[p].i,
                                          startPosition |-> startPos,
                                          endPosition |-> startPos + Len(chunk)]}
               /\ nextChunkId' = nextChunkId + 1
               /\ calls' = [calls EXCEPT ![p].i = calls[p].i + 1]
       ELSE /\ calls' = [calls EXCEPT ![p].pc = "returned"]
            /\ UNCHANGED <<documentChunks, nextChunkId>>
    /\ UNCHANGED <<documents, ingests, lastIngest>>
    /\ UNCHANGED <<embedding, ragVars, gmeVars, searchVars, chunkerVars, overlapVars, moreVars>>

RaceNext ==
    \E p \in Callers :
        \/ CallParse(p)
        \/ CallFindFirst(p)
        \/ CallWriteDocument(p)
        \/ CallDeleteMany(p)
        \/ CallCreateChunk(p)

\* --------------------- generateMissingEmbeddings: runs that overlap in time
\* POST embeddings/generate can be called again while a run is at an await;
\* each run has its own locals
Runs == {1, 2}

NoRun == [pc |-> "idle", chunksWithoutEmbeddings |-> <<>>, batchStart |-> 0,
          batchIndex |-> 0, embeddings |-> <<>>, processed |-> 0, failed |-> 0]

\* the locals of run r after i += batchSize
AfterBatch(r, p, f) ==
    [run[r] EXCEPT !.batchStart = @ + batchSize,
                   !.processed = p,
                   !.failed = f,
                   !.pc = IF run[r].batchStart + batchSize < Len(run[r].chunksWithoutEmbeddings)
                          THEN "batch" ELSE "done"]

\* run r starts: the SELECT of the chunks WHERE embedding IS NULL
RunSelect(r) ==
    /\ run[r].pc = "idle"
    /\ LET selected == SortedSeq({c \in DOMAIN embedding : embedding[c] = NULL})
       IN run' = [run EXCEPT ![r] = [NoRun EXCEPT !.chunksWithoutEmbeddings = selected,
                                                   !.pc = IF Len(selected) = 0 THEN "done"
                                                          ELSE "batch"]]
    /\ UNCHANGED <<embedding, writes>>
    /\ UNCHANGED <<ragVars, gmeVars, searchVars, chunkerVars, ingestVars, moreVars>>

\* run r: await embeddingService.generateEmbeddings(contents) of one batch
RunBatch(r) ==
    /\ run[r].pc = "batch"
    /\ LET batch == Batch(run[r].chunksWithoutEmbeddings, run[r].batchStart)
           contents == [j \in 1..Len(batch) |-> Content(batch[j])]
       IN \E remote \in RemoteEmbeddingResponses(contents) :
            LET r1 == generateEmbeddings(contents, remote)
            IN run' = [run EXCEPT ![r] =
                         IF r1.ok
                         THEN [run[r] EXCEPT !.embeddings = r1.embeddings,
                                             !.batchIndex = 0,
                                             !.pc = "update"]
                         ELSE AfterBatch(r, run[r].processed, run[r].failed + Len(batch))]
    /\ UNCHANGED <<embedding, writes>>
    /\ UNCHANGED <<ragVars, gmeVars, searchVars, chunkerVars, ingestVars, moreVars>>

\* run r: await of one UPDATE document_chunks SET embedding = ... WHERE id = ...
RunUpdate(r) ==
    /\ run[r].pc = "update"
    /\ LET batch == Batch(run[r].chunksWithoutEmbeddings, run[r].batchStart)
           j == run[r].batchIndex + 1
       IN \E accepted \in BOOLEAN :
            LET p == IF accepted THEN run[r].processed + 1 ELSE run[r].processed
                f == IF accepted THEN run[r].failed ELSE run[r].failed + 1
            IN /\ embedding' = IF accepted
                               THEN [embedding EXCEPT ![batch[j]] = run[r].embeddings[j]]
                               ELSE embedding
               /\ writes' = IF accepted THEN [writes EXCEPT ![batch[j]] = @ + 1] ELSE writes
               /\ run' = [run EXCEPT ![r] =
                            IF j = Len(batch)
                            THEN [AfterBatch(r, p, f) EXCEPT !.batchIndex = j]
                            ELSE [run[r] EXCEPT !.batchIndex = j,
                                                !.processed = p,
                                                !.failed = f]]
    /\ UNCHANGED <<ragVars, gmeVars, searchVars, chunkerVars, ingestVars, moreVars>>

OverlapInit ==
    /\ embedding \in {f \in [Chunks -> StoredVectors \cup {NULL}] :
                        \A c \in Chunks : f[c] # NULL => f[c] = EmbeddingOf(Content(c))}
    /\ RagInit
    /\ GmeInit
    /\ SearchIdle
    /\ ChunkerIdle
    /\ MoreIdle
    /\ IngestIdle
    /\ run = [r \in Runs |-> NoRun]
    /\ writes = [c \in Chunks |-> 0]

OverlapNext ==
    \E r \in Runs :
        \/ RunSelect(r)
        \/ RunBatch(r)
        \/ RunUpdate(r)

\* ---------------------------------------------------------- JavaScript strings
UpperCase == <<"A", "B", "C", "D", "E", "F", "G", "H", "I", "J", "K", "L", "M",
               "N", "O", "P", "Q", "R", "S", "T", "U", "V", "W", "X", "Y", "Z">>
LowerCase == <<"a", "b", "c", "d", "e", "f", "g", "h", "i", "j", "k", "l", "m",
               "n", "o", "p", "q", "r", "s", "t", "u", "v", "w", "x", "y", "z">>

Lower(ch) ==
    IF \E i \in DOMAIN UpperCase : UpperCase[i] = ch
    THEN LowerCase[CHOOSE i \in DOMAIN UpperCase : UpperCase[i] = ch]
    ELSE ch

\* text.toLowerCase()
toLowerCase(text) == [i \in DOMAIN text |-> Lower(text[i])]

\* text.split(separators): the pieces between the characters of separators,
\* empty pieces included
Split(text, separators) ==
    LET at == SortedSeq({i \in DOMAIN text : text[i] \in separators})
        from(k) == IF k = 1 THEN 1 ELSE at[k - 1] + 1
        to(k) == IF k = Len(at) + 1 THEN Len(text) ELSE at[k] - 1
    IN [k \in 1..(Len(at) + 1) |-> SubSeq(text, from(k), to(k))]

RECURSIVE Join(_, _)
\* parts.join(separator)
Join(parts, separator) ==
    IF parts = <<>> THEN <<>>
    ELSE IF Len(parts) = 1 THEN parts[1]
    ELSE parts[1] \o separator \o Join(Tail(parts), separator)

\* text.startsWith(prefix)
startsWith(text, prefix) ==
    Len(text) >= Len(prefix) /\ SubSeq(text, 1, Len(prefix)) = prefix

\* text.includes(part)
includes(text, part) == Len(part) <= Len(text) /\ indexOf(text, part) # 0 - 1

\* ------------------------------------------------ TelegramService: an update
\* the texts of the updates: commands with and without arguments, in either
\* case, a command followed by one blank, and two questions
UpdateTexts ==
    {<<"/", "s", "t", "a", "r", "t">>,
     <<"/", "h", "e", "l", "p">>,
     <<"/", "s", "t", "a", "t", "s">>,
     <<"/", "q", "u", "i", "c", "k">>,
     <<"/", "q", "u", "i", "c", "k", " ", "z", "o", "n", "e", " ", "2">>,
     <<"/", "q", "u", "i", "c", "k", " ">>,
     <<"/", "d", "e", "t", "a", "i", "l", "e", "d">>,
     <<"/", "D", "E", "T", "A", "I", "L", "E", "D", " ", "h", "o", "w", " ", "t", "o", " ", "t", "r", "a", "i", "n">>,
     <<"/", "f", "o", "o">>,
     <<"w", "h", "a", "t", " ", "i", "s", " ", "z", "o", "n", "e", " ", "2">>,
     Word(55)}

\* update.message without text, and update.message.text
Updates == {[hasText |-> FALSE, text |-> <<>>]} \cup {[hasText |-> TRUE, text |-> t] : t \in UpdateTexts}

\* a message and the block whose catch gets the exception of a failed send
Message(kind, block, russian) == [kind |-> kind, block |-> block, russian |-> russian]

\* processWebhookUpdate receives an update
ProcessWebhookUpdate ==
    /\ botPc = "idle"
    /\ \E u \in Updates :
          /\ update' = [hasText |-> u.hasText, text |-> u.text]
          \* if (update.message && update.message.text)
          /\ botPc' = IF u.hasText /\ u.text # <<>> THEN "handleTextMessage" ELSE "done"
    /\ UNCHANGED <<botMode, botQuestion, pending, replies, ragCalls, ragOutcome,
                   deliveryFailed, thrown>>
    /\ UNCHANGED <<embedding, ragVars, gmeVars, searchVars, chunkerVars, ingestVars,
                   overlapVars, quoteVars, cosineVars>>

\* handleTextMessage: a command or a question
HandleTextMessage ==
    /\ botPc = "handleTextMessage"
    /\ IF startsWith(update.text, <<"/">>)
       THEN /\ botPc' = "handleCommand"
            /\ UNCHANGED <<botMode, botQuestion>>
       ELSE /\ botPc' = "sendChatAction"
            /\ botMode' = "auto"
            /\ botQuestion' = update.text
    /\ UNCHANGED <<update, pending, replies, ragCalls, ragOutcome, deliveryFailed, thrown>>
    /\ UNCHANGED <<embedding, ragVars, gmeVars, searchVars, chunkerVars, ingestVars,
                   overlapVars, quoteVars, cosineVars>>

\* handleCommand up to its first send or its call of handleQuestion;
\* isRussianSpeakingUser catches its own errors, sendUserStats those of the
\* two log queries
HandleCommand ==
    /\ botPc = "handleCommand"
    /\ LET parts == Split(update.text, {" "})
           cmd == toLowerCase(parts[1])
           args == Tail(parts)
       IN \E isRussian \in BOOLEAN, statsRead \in BOOLEAN :
            IF cmd \in {<<"/", "q", "u", "i", "c", "k">>, <<"/", "d", "e", "t", "a", "i", "l", "e", "d">>} /\ Len(args) > 0
            THEN /\ botPc' = "sendChatAction"
                 /\ botMode' = IF cmd = <<"/", "q", "u", "i", "c", "k">> THEN "quick" ELSE "detailed"
                 /\ botQuestion' = Join(args, <<" ">>)
                 /\ UNCHANGED pending
            ELSE /\ botPc' = "sendMessage"
                 /\ pending' =
                       IF cmd = <<"/", "s", "t", "a", "r", "t">>
                       THEN Message("welcome", "handleTextMessage.try", isRussian)
                       ELSE IF cmd = <<"/", "h", "e", "l", "p">>
                       THEN Message("help", "handleTextMessage.try", isRussian)
                       ELSE IF cmd \in {<<"/", "q", "u", "i", "c", "k">>, <<"/", "d", "e", "t", "a", "i", "l", "e", "d">>}
                       THEN Message("usage", "handleTextMessage.try", isRussian)
                       ELSE IF cmd = <<"/", "s", "t", "a", "t", "s">>
                       THEN (IF statsRead
                             THEN Message("stats", "sendUserStats.try", isRussian)
                             ELSE Message("statsError", "handleTextMessage.try", isRussian))
                       ELSE Message("unknown", "handleTextMessage.try", isRussian)
                 /\ UNCHANGED <<botMode, botQuestion>>
    /\ UNCHANGED <<update, replies, ragCalls, ragOutcome, deliveryFailed, thrown>>
    /\ UNCHANGED <<embedding, ragVars, gmeVars, searchVars, chunkerVars, ingestVars,
                   overlapVars, quoteVars, cosineVars>>

\* handleQuestion: await bot.sendChatAction(chatId, 'typing'), before its try
SendChatAction ==
    /\ botPc = "sendChatAction"
    /\ \E delivered \in BOOLEAN :
          IF delivered
          THEN /\ botPc' = "generateAnswer"
               /\ UNCHANGED <<pending, deliveryFailed>>
          ELSE /\ deliveryFailed' = TRUE
               /\ pending' = Message("error", "handleTextMessage.catch", TRUE)
               /\ botPc' = "sendMessage"
    /\ UNCHANGED <<update, botMode, botQuestion, replies, ragCalls, ragOutcome, thrown>>
    /\ UNCHANGED <<embedding, ragVars, gmeVars, searchVars, chunkerVars, ingestVars,
                   overlapVars, quoteVars, cosineVars>>

\* handleQuestion: await ragService.generateAnswer(...), which returns an
\* answer, returns the no-context answer, or throws
BotGenerateAnswer ==
    /\ botPc = "generateAnswer"
    /\ ragCalls' = Append(ragCalls, ResolveMode(botMode, botQuestion))
    /\ \E returned \in {"answer", "nocontext", "failed"} :
          /\ ragOutcome' = returned
          /\ pending' = IF returned = "failed"
                        THEN Message("error", "handleTextMessage.try", TRUE)
                        ELSE Message("answer", "handleQuestion.try", FALSE)
    /\ botPc' = "sendMessage"
    /\ UNCHANGED <<update, botMode, botQuestion, replies, deliveryFailed, thrown>>
    /\ UNCHANGED <<embedding, ragVars, gmeVars, searchVars, chunkerVars, ingestVars,
                   overlapVars, quoteVars, cosineVars>>

\* sendMessage: await bot.sendMessage(...); it rethrows what the API throws,
\* and the catch of the block the send was made in sends the next message
SendMessage ==
    /\ botPc = "sendMessage"
    /\ \E delivered \in BOOLEAN :
          IF delivered
          THEN /\ replies' = Append(replies, pending.kind)
               /\ botPc' = "done"
               /\ UNCHANGED <<pending, deliveryFailed, thrown>>
          ELSE /\ deliveryFailed' = TRUE
               /\ UNCHANGED replies
               /\ IF pending.block = "handleQuestion.try"
                  THEN /\ pending' = Message("error", "handleTextMessage.try", TRUE)
                       /\ UNCHANGED <<botPc, thrown>>
                  ELSE IF pending.block = "sendUserStats.try"
                  THEN /\ pending' = Message("statsError", "handleTextMessage.try", pending.russian)
                       /\ UNCHANGED <<botPc, thrown>>
                  ELSE IF pending.block = "handleTextMessage.try"
                  THEN /\ pending' = Message("error", "handleTextMessage.catch", TRUE)
                       /\ UNCHANGED <<botPc, thrown>>
                  ELSE /\ thrown' = TRUE
                       /\ botPc' = "done"
                       /\ UNCHANGED pending
    /\ UNCHANGED <<update, botMode, botQuestion, ragCalls, ragOutcome>>
    /\ UNCHANGED <<embedding, ragVars, gmeVars, searchVars, chunkerVars, ingestVars,
                   overlapVars, quoteVars, cosineVars>>

TelegramNext ==
    \/ ProcessWebhookUpdate
    \/ HandleTextMessage
    \/ HandleCommand
    \/ SendChatAction
    \/ BotGenerateAnswer
    \/ SendMessage

\* --------------------------------------------- TelegramService.extractQuotes
Letters == Range(UpperCase) \cup Range(LowerCase)

\* '-' and the bullet character U+2022
Bullets == {"-", "bullet"}

\* text.replace(/^\s*[-bullet]\s*/, '')
RemoveBullet(text) ==
    LET first == FirstKept(text, 1, Len(text))
    IN IF first # 0 /\ text[first] \in Bullets
       THEN TrimStart(SubSeq(text, first + 1, Len(text)))
       ELSE text

\* text.replace(/\s+/g, ' ')
NormalizeWhitespace(text) ==
    LET positions == [i \in DOMAIN text |-> i]
        kept == SelectSeq(positions,
                          LAMBDA i : \/ text[i] \notin Whitespace
                                     \/ i = 1
                                     \/ text[i - 1] \notin Whitespace)
    IN [k \in DOMAIN kept |-> IF text[kept[k]] \in Whitespace THEN " " ELSE text[kept[k]]]

\* text.replace(/^[^A-Za-z...]*/, ''): the inputs hold no Cyrillic letter
RemoveLeadingNonLetters(text) ==
    LET positions == [i \in DOMAIN text |-> i]
        letters == SelectSeq(positions, LAMBDA i : text[i] \in Letters)
    IN IF letters = <<>> THEN <<>> ELSE SubSeq(text, letters[1], Len(text))

\* the cleaning of a sentence as it stands in extractQuotes
CleanSentence(sentence) ==
    RemoveLeadingNonLetters(NormalizeWhitespace(RemoveBullet(Trim(sentence))))

\* question.toLowerCase().split(' ').filter(word => word.length > 3)
QuestionKeywords(question) ==
    SelectSeq(Split(toLowerCase(question), {" "}), LAMBDA word : Len(word) > 3)

\* content.split(/[.!?]+/).filter(s => s.trim().length > minimum): the empty
\* pieces between adjacent terminators do not pass the filter either
SentencesLongerThan(content, minimum) ==
    SelectSeq(Split(content, {".", "!", "?"}), LAMBDA piece : Len(Trim(piece)) > minimum)

\* the sentences of one chunk that the inner loop would push, cleaned
ChunkQuotes(content, keywords) ==
    LET sentences == SentencesLongerThan(content, 20)
        relevant(sentence) ==
            /\ \E k \in DOMAIN keywords : includes(toLowerCase(sentence), keywords[k])
            /\ Len(Trim(sentence)) <= 150
            /\ Len(CleanSentence(sentence)) > 30
            /\ Len(CleanSentence(sentence)) <= 150
        pushed == SelectSeq(sentences, relevant)
    IN [i \in DOMAIN pushed |-> CleanSentence(pushed[i])]

\* the fallback: the first two sentences of the first chunk
FallbackQuotes(content) ==
    LET sentences == SentencesLongerThan(content, 30)
        firstTwo == SubSeq(sentences, 1, Min(2, Len(sentences)))
        cleaned == [i \in DOMAIN firstTwo |-> NormalizeWhitespace(Trim(firstTwo[i]))]
    IN SelectSeq(cleaned, LAMBDA quote : Len(quote) <= 150)

\* extractQuotes(context, question); both loops stop at three quotes, which
\* keeps the first three that would be pushed
extractQuotes(context, question) ==
    LET keywords == QuestionKeywords(question)
        pushed == Flatten([i \in DOMAIN context |-> ChunkQuotes(context[i].content, keywords)])
        quotes == SubSeq(pushed, 1, Min(3, Len(pushed)))
    IN IF Len(quotes) = 0 /\ Len(context) > 0
       THEN [quotes |-> FallbackQuotes(context[1].content), fallback |-> TRUE]
       ELSE [quotes |-> quotes, fallback |-> FALSE]

\* sentences of the documents: with a keyword in capitals, starting with a
\* number, without keyword, with a bullet, longer than 150 characters, short
QuoteSentences ==
    {<<"Z", "o", "n", "e", " ", "t", "w", "o", " ", "t", "r", "a", "i", "n", "i", "n", "g", " ", "b", "u", "i", "l", "d", "s", " ", "t", "h", "e", " ", "a", "e", "r", "o", "b", "i", "c", " ", "b", "a", "s", "e">>,
     <<"2", "0", "2", "4", " ", "w", "a", "s", " ", "a", " ", "y", "e", "a", "r", " ", "o", "f", " ", "l", "o", "n", "g", " ", "s", "l", "o", "w", " ", "r", "u", "n", "s", " ", "o", "u", "t", "d", "o", "o", "r", "s">>,
     <<"s", "l", "e", "e", "p", " ", "i", "s", " ", "t", "h", "e", " ", "b", "e", "s", "t", " ", "r", "e", "c", "o", "v", "e", "r", "y", " ", "t", "o", "o", "l", " ", "w", "e", " ", "h", "a", "v", "e">>,
     <<"-", " ", "z", "o", "n", "e", " ", "t", "w", "o", " ", "i", "s", " ", "w", "h", "e", "r", "e", " ", "m", "o", "s", "t", " ", "o", "f", " ", "t", "h", "e", " ", "v", "o", "l", "u", "m", "e", " ", "g", "o", "e", "s">>,
     <<"t", "h", "e", " ", "z", "o", "n", "e", " ", "i", "s", " ", "a", " ", "h", "e", "a", "r", "t", " ", "r", "a", "t", "e", " ", "b", "a", "n", "d">>,
     <<"z", "o", "n", "e", " ">> \o Word(150)}

\* contents of a chunk: no sentence, one, or two
QuoteContents ==
    {<<>>} \cup {a \o <<".", " ">> : a \in QuoteSentences}
           \cup {a \o <<".", " ">> \o b \o <<"!">> : a, b \in QuoteSentences}

QuoteQuestions == {<<"w", "h", "a", "t", " ", "i", "s", " ", "Z", "O", "N", "E", " ", "2", "0", "2", "4">>, <<"i", "s", " ", "i", "t", " ", "o", "k">>, <<"t", "e", "l", "l", " ", "m", "e", " ", "a", "b", "o", "u", "t", " ", "s", "l", "e", "e", "p">>}

\* a call of extractQuotes, as sendRagResponse makes it, returns
ExtractQuotes ==
    /\ quoteCall = [none |-> TRUE]
    /\ \E question \in QuoteQuestions, first \in QuoteContents, second \in QuoteContents \cup {NULL} :
          LET context == IF second = NULL
                         THEN <<[content |-> first]>>
                         ELSE <<[content |-> first], [content |-> second]>>
              returned == extractQuotes(context, question)
          IN quoteCall' = [question |-> question,
                           context |-> context,
                           quotes |-> returned.quotes,
                           fallback |-> returned.fallback]
    /\ UNCHANGED <<embedding, ragVars, gmeVars, searchVars, chunkerVars, ingestVars,
                   overlapVars, telegramVars, cosineVars>>

QuoteNext == ExtractQuotes

\* ------------------------------------------- calculateCosineSimilarity
\* A JavaScript number is an IEEE 754 double: a sign, a mantissa of 53 bits
\* and an exponent, every operation rounded to the nearest double, ties to
\* the even mantissa.  The mantissas and the intermediate products are wider
\* than an integer of the model checker, so a natural number is a sequence
\* of limbs, least significant first, without a leading zero limb.
Base == 32768
LimbBits == 15
Precision == 53

\* the limbs of a natural number below Base * Base
BigOf(n) ==
    IF n = 0 THEN <<>>
    ELSE IF n < Base THEN <<n>>
    ELSE <<n % Base, n \div Base>>

RECURSIVE BigAddCarry(_, _, _)
BigAddCarry(a, b, carry) ==
    IF a = <<>> /\ b = <<>>
    THEN IF carry = 0 THEN <<>> ELSE <<carry>>
    ELSE LET x == IF a = <<>> THEN 0 ELSE Head(a)
             y == IF b = <<>> THEN 0 ELSE Head(b)
             sum == x + y + carry
         IN <<sum % Base>> \o BigAddCarry(IF a = <<>> THEN <<>> ELSE Tail(a),
                                           IF b = <<>> THEN <<>> ELSE Tail(b),
                                           sum \div Base)

BigAdd(a, b) == BigAddCarry(a, b, 0)

RECURSIVE BigTimesLimb(_, _, _)
BigTimesLimb(a, limb, carry) ==
    IF a = <<>>
    THEN IF carry = 0 THEN <<>> ELSE <<carry>>
    ELSE LET product == Head(a) * limb + carry
         IN <<product % Base>> \o BigTimesLimb(Tail(a), limb, product \div Base)

\* a times Base
BigShiftLimb(a) == IF a = <<>> THEN <<>> ELSE <<0>> \o a

RECURSIVE BigMul(_, _)
BigMul(a, b) ==
    IF a = <<>> \/ b = <<>> THEN <<>>
    ELSE BigAdd(BigTimesLimb(a, Head(b), 0), BigShiftLimb(BigMul(a, Tail(b))))

RECURSIVE BigLessEq(_, _)
BigLessEq(a, b) ==
    IF Len(a) # Len(b) THEN Len(a) < Len(b)
    ELSE IF a = <<>> THEN TRUE
    ELSE IF a[Len(a)] # b[Len(b)] THEN a[Len(a)] < b[Len(b)]
    ELSE BigLessEq(SubSeq(a, 1, Len(a) - 1), SubSeq(b, 1, Len(b) - 1))

BigOdd(a) == a # <<>> /\ a[1] % 2 = 1

\* a divided by 2, rounded down
BigHalf(a) ==
    LET halved == [i \in 1..Len(a) |->
                      a[i] \div 2
                      + (IF i < Len(a) THEN (a[i + 1] % 2) * (Base \div 2) ELSE 0)]
    IN IF halved # <<>> /\ halved[Len(halved)] = 0
       THEN SubSeq(halved, 1, Len(halved) - 1)
       ELSE halved

RECURSIVE PowerOfTwo(_)
PowerOfTwo(k) == IF k = 0 THEN 1 ELSE 2 * PowerOfTwo(k - 1)

\* 2 to the power k
BigPowerOfTwo(k) ==
    [i \in 1..(k \div LimbBits + 1) |->
        IF i = k \div LimbBits + 1 THEN PowerOfTwo(k % LimbBits) ELSE 0]

\* the number of bits of a limb
LimbLength(limb) == Cardinality({k \in 0..(LimbBits - 1) : PowerOfTwo(k) <= limb})

\* the number of bits of a
BitLength(a) ==
    IF a = <<>> THEN 0 ELSE LimbBits * (Len(a) - 1) + LimbLength(a[Len(a)])

\* bit k of a, bit 0 the least significant
BigBit(a, k) ==
    IF k \div LimbBits + 1 > Len(a) THEN 0
    ELSE (a[k \div LimbBits + 1] \div PowerOfTwo(k % LimbBits)) % 2

\* a without a leading zero limb
BigStrip(a) ==
    IF a # <<>> /\ a[Len(a)] = 0 THEN SubSeq(a, 1, Len(a) - 1) ELSE a

\* a divided by 2^s, rounded down
BigShiftRight(a, s) ==
    LET limbs == s \div LimbBits
        bits == s % LimbBits
    IN IF limbs >= Len(a) THEN <<>>
       ELSE BigStrip([i \in 1..(Len(a) - limbs) |->
                        a[i + limbs] \div PowerOfTwo(bits)
                        + (IF i + limbs < Len(a)
                           THEN (a[i + limbs + 1] % PowerOfTwo(bits))
                                * PowerOfTwo(LimbBits - bits)
                           ELSE 0)])

RECURSIVE BigSubBorrow(_, _, _)
BigSubBorrow(a, b, borrow) ==
    IF a = <<>> THEN <<>>
    ELSE LET y == (IF b = <<>> THEN 0 ELSE Head(b)) + borrow
             under == Head(a) < y
         IN <<IF under THEN Head(a) + Base - y ELSE Head(a) - y>>
            \o BigSubBorrow(Tail(a), IF b = <<>> THEN <<>> ELSE Tail(b),
                            IF under THEN 1 ELSE 0)

\* a - b, for b <= a
BigSub(a, b) ==
    LET limbs == BigSubBorrow(a, b, 0)
        used == {i \in DOMAIN limbs : limbs[i] # 0}
    IN IF used = {} THEN <<>>
       ELSE SubSeq(limbs, 1, CHOOSE i \in used : \A j \in used : j <= i)

\* one step of the long division by b: the next bit of the quotient
DivideStep(before, b) ==
    LET doubled == BigAdd(before.rest, before.rest)
        twice == BigAdd(before.q, before.q)
    IN IF BigLessEq(b, doubled)
       THEN [q |-> BigAdd(twice, <<1>>), rest |-> BigSub(doubled, b)]
       ELSE [q |-> twice, rest |-> doubled]

\* k steps of the long division; when nothing is left the remaining bits
\* of the quotient are zero
RECURSIVE DivideSteps(_, _, _)
DivideSteps(before, b, k) ==
    IF k = 0 THEN before
    ELSE IF k = 1 THEN DivideStep(before, b)
    ELSE LET half == DivideSteps(before, b, k \div 2)
         IN IF half.rest = <<>>
            THEN [q |-> BigMul(half.q, BigPowerOfTwo(k - k \div 2)), rest |-> <<>>]
            ELSE DivideSteps(half, b, k - k \div 2)

\* a * 2^k divided by b, rounded down, and what is left, for a < 2 * b
BigDivideScaled(a, b, k) ==
    DivideSteps(IF BigLessEq(b, a)
                THEN [q |-> <<1>>, rest |-> BigSub(a, b)]
                ELSE [q |-> <<>>, rest |-> a],
                b, k)

\* the largest r, built from bit i downward, with r * r <= a
RECURSIVE BigSqrtFrom(_, _, _)
BigSqrtFrom(a, r, i) ==
    IF i < 0 THEN r
    ELSE LET candidate == BigAdd(r, BigPowerOfTwo(i))
         IN IF BigLessEq(BigMul(candidate, candidate), a)
            THEN BigSqrtFrom(a, candidate, i - 1)
            ELSE BigSqrtFrom(a, r, i - 1)

\* the square root of a, rounded down
BigSqrt(a) == BigSqrtFrom(a, <<>>, BitLength(a) \div 2)

\* A double is sign * m * 2^e, with m of exactly Precision bits, or zero.
\* The vectors of the model keep every exponent far inside the range of a
\* double, so that no operation overflows or underflows.
FloatZero == [sign |-> 0, m |-> <<>>, e |-> 0]

\* the double nearest to sign * n * 2^e, for n of at least Precision bits;
\* inexact tells that n already left something out below its last bit
RoundNearestEven(sign, n, e, inexact) ==
    LET s == BitLength(n) - Precision
        kept == BigShiftRight(n, s)
        guard == s > 0 /\ BigBit(n, s - 1) = 1
        sticky == inexact \/ \E j \in 0..(s - 2) : BigBit(n, j) = 1
        up == guard /\ (sticky \/ BigOdd(kept))
        m == IF up THEN BigAdd(kept, <<1>>) ELSE kept
    IN IF BitLength(m) > Precision
       THEN [sign |-> sign, m |-> BigHalf(m), e |-> e + s + 1]
       ELSE [sign |-> sign, m |-> m, e |-> e + s]

\* the double of an integer of few bits, which is exact
FloatOf(k) ==
    IF k = 0 THEN FloatZero
    ELSE LET n == BigOf(IF k < 0 THEN -k ELSE k)
             shift == Precision - BitLength(n)
         IN [sign |-> IF k < 0 THEN -1 ELSE 1,
             m |-> BigMul(n, BigPowerOfTwo(shift)),
             e |-> -shift]

\* x * y
FloatMul(x, y) ==
    IF x.sign = 0 \/ y.sign = 0 THEN FloatZero
    ELSE RoundNearestEven(x.sign * y.sign, BigMul(x.m, y.m), x.e + y.e, FALSE)

\* x / y, y not zero
FloatDiv(x, y) ==
    IF x.sign = 0 THEN FloatZero
    ELSE LET division == BigDivideScaled(x.m, y.m, Precision + 2)
         IN RoundNearestEven(x.sign * y.sign, division.q,
                             x.e - (Precision + 2) - y.e, division.rest # <<>>)

\* Math.sqrt(x), x not negative
FloatSqrt(x) ==
    IF x.sign = 0 THEN FloatZero
    ELSE LET shift == IF x.e % 2 = 0 THEN Precision + 1 ELSE Precision + 2
             scaled == BigMul(x.m, BigPowerOfTwo(shift))
             r == BigSqrt(scaled)
         IN RoundNearestEven(1, r, (x.e - shift) \div 2, BigMul(r, r) # scaled)

FloatOne == FloatOf(1)
FloatMinusOne == FloatOf(-1)

\* -1 <= x <= 1
FloatInUnitRange(x) ==
    \/ x.sign = 0
    \/ x.e < FloatOne.e
    \/ x.e = FloatOne.e /\ x.m = FloatOne.m

MaxDimension == 3
MaxComponent == 1

Components == (-MaxComponent)..MaxComponent
CosineVectors == UNION {[1..n -> Components] : n \in 0..MaxDimension}

RECURSIVE SumOfProducts(_, _, _)
SumOfProducts(a, b, i) ==
    IF i > Len(a) THEN 0 ELSE a[i] * b[i] + SumOfProducts(a, b, i + 1)

MismatchError == "Vectors must have the same length"

\* Math.sqrt of every sum of squares that the vectors can give
SquareRoots ==
    [n \in 0..(MaxDimension * MaxComponent * MaxComponent) |-> FloatSqrt(FloatOf(n))]

\* the sums of the loop are sums of small integers, which doubles hold
\* exactly: they are added as integers and converted once
calculateCosineSimilarity(a, b) ==
    IF Len(a) # Len(b) THEN [thrown |-> MismatchError]
    ELSE LET dotProduct == FloatOf(SumOfProducts(a, b, 1))
             normA == SquareRoots[SumOfProducts(a, a, 1)]
             normB == SquareRoots[SumOfProducts(b, b, 1)]
         IN IF normA = FloatZero \/ normB = FloatZero
            THEN [returned |-> FloatZero]
            ELSE [returned |-> FloatDiv(dotProduct, FloatMul(normA, normB))]

CalculateCosineSimilarity ==
    /\ cosineCall = [none |-> TRUE]
    /\ \E a \in CosineVectors, b \in CosineVectors :
          LET result == calculateCosineSimilarity(a, b)
          IN cosineCall' = IF "thrown" \in DOMAIN result
                           THEN [a |-> a, b |-> b, thrown |-> result.thrown]
                           ELSE [a |-> a, b |-> b, returned |-> result.returned]
    /\ UNCHANGED <<embedding, ragVars, gmeVars, searchVars, chunkerVars, ingestVars,
                   overlapVars, telegramVars, quoteVars>>

CosineNext == CalculateCosineSimilarity


\* ------------------------------------------- direct calls of the searches
\* the limits and similarity thresholds (hundredths) the calls are made with
SearchLimits == {1, 2}
SearchThresholds == {20, 50, 80}

\* chunk ids a caller may name: those of the table and one that is not there
ChunkIds == Chunks \cup {0}

DocumentIds == {DocumentId(c) : c \in Chunks}

\* the call returns or throws
Return(op, chunkId, documentId, q, limit, threshold, returned) ==
    /\ searchCall' = [op |-> op, chunkId |-> chunkId, documentId |-> documentId,
                      queryEmbedding |-> q, limit |-> limit, threshold |-> threshold,
                      ok |-> returned.ok, results |-> returned.results,
                      error |-> returned.error]
    /\ UNCHANGED <<embedding, ragVars, gmeVars, chunkerVars, ingestVars, overlapVars, moreVars>>

\* POST search: SearchService.searchDocuments
SearchDocuments ==
    /\ searchCall.op = "none"
    /\ \E q \in Vectors, limit \in SearchLimits, threshold \in SearchThresholds :
        \E returned \in searchDocuments(embedding, q, [limit |-> limit, threshold |-> threshold]) :
            Return("searchDocuments", 0, 0, q, limit, threshold, returned)

\* POST search/document/:documentId : SearchService.searchInDocument
SearchInDocument ==
    /\ searchCall.op = "none"
    /\ \E d \in DocumentIds, q \in Vectors, limit \in SearchLimits, threshold \in SearchThresholds :
        \E returned \in searchInDocument(d, embedding, q, limit, threshold) :
            Return("searchInDocument", 0, d, q, limit, threshold, returned)

\* GET search/similar/:chunkId : SearchService.findSimilarChunks
FindSimilarChunks ==
    /\ searchCall.op = "none"
    /\ \E chunkId \in ChunkIds, limit \in SearchLimits, threshold \in SearchThresholds :
        \E returned \in findSimilarChunks(chunkId, embedding, limit, threshold) :
            Return("findSimilarChunks", chunkId, 0, NULL, limit, threshold, returned)

SearchInit ==
    /\ embedding \in [Chunks -> Vectors \cup {NULL}]
    /\ RagInit
    /\ GmeInit
    /\ SearchIdle
    /\ ChunkerIdle
    /\ MoreIdle
    /\ IngestIdle
    /\ OverlapIdle

SearchNext ==
    \/ SearchDocuments
    \/ SearchInDocument
    \/ FindSimilarChunks

vars == <<embedding, ragVars, gmeVars, otherVars>>

Init ==
    /\ embedding \in [Chunks -> StoredVectors \cup {NULL}]
    /\ RagInit
    /\ GmeInit
    /\ SearchIdle
    /\ ChunkerIdle
    /\ MoreIdle
    /\ IngestIdle
    /\ OverlapIdle

EmbedInit ==
    /\ embedding \in {f \in [Chunks -> StoredVectors \cup {NULL}] :
                        \A c \in Chunks : f[c] # NULL => f[c] = EmbeddingOf(Content(c))}
    /\ RagInit
    /\ GmeInit
    /\ SearchIdle
    /\ ChunkerIdle
    /\ MoreIdle
    /\ IngestIdle
    /\ OverlapIdle

EmbedNext ==
    \/ GmeSelect
    \/ GmeBatch
    \/ GmeUpdate

EmbedSpec == EmbedInit /\ [][EmbedNext]_vars

\* a table of MaxRows chunks, enough for three batches, with one run left to
\* start: no chunk embedded, one embedded, or all of them
BatchInit ==
    /\ \E embedded \in {{}, {2}, 1..MaxRows} :
          embedding = [c \in 1..MaxRows |->
                          IF c \in embedded THEN EmbeddingOf(Content(c)) ELSE NULL]
    /\ RagInit
    /\ gmePc = "idle"
    /\ chunksWithoutEmbeddings = <<>>
    /\ batchStart = 0
    /\ batchIndex = 0
    /\ embeddings = <<>>
    /\ processed = 0
    /\ failed = 0
    /\ report = NoReport
    /\ lastBatch = NoBatch
    /\ runs = MaxRuns - 1
    /\ rejected = 0
    /\ SearchIdle
    /\ ChunkerIdle
    /\ MoreIdle
    /\ IngestIdle
    /\ OverlapIdle

BatchSpec == BatchInit /\ [][EmbedNext]_vars

Next ==
    \/ HandleQuestion
    \/ AskQuestion
    \/ AskQuickQuestion
    \/ AskDetailedQuestion
    \/ GenerateEmbedding
    \/ VectorSimilaritySearch
    \/ LogSearch
    \/ GenerateLLMResponse
    \/ LogRagInteraction

Spec == Init /\ [][Next]_vars

SearchSpec == SearchInit /\ [][SearchNext]_vars

ChunkerNext == ChunkText

ChunkerInit ==
    /\ embedding = [c \in Chunks |-> NULL]
    /\ RagInit
    /\ GmeInit
    /\ SearchIdle
    /\ ChunkerIdle
    /\ MoreIdle
    /\ IngestIdle
    /\ OverlapIdle

ChunkerSpec == ChunkerInit /\ [][ChunkerNext]_vars

OverlapSpec == OverlapInit /\ [][OverlapNext]_vars

IngestNext == ProcessDocument

IngestSpec == ChunkerInit /\ [][IngestNext]_vars

\* an empty store and no call started
RaceInit ==
    /\ embedding = [c \in Chunks |-> NULL]
    /\ RagInit
    /\ GmeInit
    /\ SearchIdle
    /\ ChunkerIdle
    /\ MoreIdle
    /\ documents = <<>>
    /\ documentChunks = {}
    /\ nextChunkId = 1
    /\ ingests = 0
    /\ lastIngest = [success |-> FALSE, failure |-> "none", documentId |-> 0,
                     existed |-> FALSE, chunks |-> 0, firstChunkId |-> 0]
    /\ calls = [p \in Callers |-> NoCall]
    /\ OverlapIdle

RaceSpec == RaceInit /\ [][RaceNext]_vars

\* the bot before an update arrives
TelegramInit ==
    /\ embedding = [c \in Chunks |-> NULL]
    /\ RagInit
    /\ GmeInit
    /\ SearchIdle
    /\ ChunkerIdle
    /\ IngestIdle
    /\ OverlapIdle
    /\ TelegramIdle
    /\ QuoteIdle
    /\ CosineIdle

TelegramSpec == TelegramInit /\ [][TelegramNext]_vars

QuoteSpec == TelegramInit /\ [][QuoteNext]_vars

CosineSpec == TelegramInit /\ [][CosineNext]_vars

\* ================================================================== claims
\* 1 - cosine distance of the query to the stored embedding of a returned row
TrueSimilarity(row) == 100 - CosineDistance(embedding[row.id], queryEmbedding)

\* searchDocuments has returned (the call is past the index lookup)
SearchReturned ==
    \/ pc \in {"logSearch", "generation", "logRag"}
    \/ pc = "done" /\ outcome \in {"answer", "nocontext"}
    \/ pc = "done" /\ failedStage \in {"generation", "logging"}

\* C1: every result of the global similarity search has similarity
\* (1 - cosine distance to the query) at least the threshold of the search
C1_SimilarityAtLeastThreshold ==
    SearchReturned =>
        \A i \in DOMAIN searchResults :
            TrueSimilarity(searchResults[i]) >= SearchThreshold(searchDto)

\* C2: every result of searchDocuments carries the similarity 1 - distance of
\* its chunk to the query, and the chunk's stored position index
C2_ResultCarriesSimilarityAndIndex ==
    SearchReturned =>
        \A i \in DOMAIN results :
            /\ results[i].similarity = TrueSimilarity(searchResults[i])
            /\ results[i].chunkIndex = ChunkIndex(results[i].chunkId)

\* C3: when the search returns zero results, generateAnswer returns the fixed
\* insufficient-information answer with confidence 0, no sources, no context,
\* contextCount 0, and the generation model is never invoked
C3_NoContextAnswer ==
    (SearchReturned /\ Len(results) = 0) =>
        /\ generationCalls = 0
        /\ pc \in {"logSearch", "done"}
        /\ pc = "done" =>
            /\ outcome = "nocontext"
            /\ error = <<>>
            /\ response.answer \in {NoContextAnswerRu, NoContextAnswerEn}
            /\ response.confidence = 0
            /\ response.sources = <<>>
            /\ response.context = <<>>
            /\ response.contextCount = 0

C3_Witness ==
    /\ pc = "done"
    /\ outcome = "nocontext"
    /\ queryEmbedding # NULL
    /\ searchDto.threshold = 90
    /\ query.question = "zone 2 training"
    /\ \E c \in Chunks : embedding[c] # NULL

RECURSIVE SumTrueSimilarity(_)
SumTrueSimilarity(rows) ==
    IF rows = <<>> THEN 0
    ELSE SumTrueSimilarity(SubSeq(rows, 1, Len(rows) - 1)) + TrueSimilarity(rows[Len(rows)])

\* C4: the confidence generateAnswer returns is
\* min(avg(similarity of the hits) + min(hitCount, 5)/5 * 0.2, 1.0), a number
\* in [0, 1], and 0 when there are no hits
C4_ConfidenceFormula ==
    (pc = "done" /\ outcome \in {"answer", "nocontext"}) =>
        LET n == Len(searchResults)
            expected == IF n = 0 THEN 0
                        ELSE Min((SumTrueSimilarity(searchResults) * ConfidenceScale) \div n
                                   + Min(n, 5) * 4 * ConfidenceScale,
                                 100 * ConfidenceScale)
        IN /\ response.confidence = expected
           /\ response.confidence >= 0
           /\ response.confidence <= 100 * ConfidenceScale

\* C5: retrieval parameters the caller supplies are the limit and threshold of
\* the similarity search of that request
C5_ExplicitParametersWin ==
    (pc \notin {"idle"} /\ entry.kind = "ask") =>
        /\ query.maxContextChunks # Undefined =>
               SearchLimit(searchDto) = query.maxContextChunks
        /\ query.similarityThreshold # Undefined =>
               SearchThreshold(searchDto) = query.similarityThreshold

\* C6: quick -> (3, 0.3); detailed -> (8, 0.2); auto with a question shorter
\* than 50 characters -> (3, 0.3); auto with 50 characters or more -> (5, 0.25)
C6_ModeTable ==
    entry.kind \in {"telegram", "ask/quick", "ask/detailed"} =>
        LET n == Len(query.question)
            given == <<query.maxContextChunks, query.similarityThreshold>>
        IN /\ entry.mode = "quick" => given = <<3, 30>>
           /\ entry.mode = "detailed" => given = <<8, 20>>
           /\ (entry.mode = "auto" /\ n < 50) => given = <<3, 30>>
           /\ (entry.mode = "auto" /\ n >= 50) => given = <<5, 25>>

C6_Witness ==
    /\ entry.kind = "telegram"
    /\ entry.mode = "auto"
    /\ Len(query.question) = 50
    /\ query.maxContextChunks = 5
    /\ pc = "done"

\* C7: a log write, accepted or rejected, never ends the call with an
\* exception and never changes the results or the response being returned
C7_LoggingNeverAffectsResult ==
    [][/\ pc = "logSearch" => (outcome' # "failed" /\ results' = results)
       /\ pc = "logRag" => (outcome' = "answer" /\ response' = response /\ error' = <<>>)]_vars

C7_Witness ==
    /\ pc = "done"
    /\ outcome = "answer"
    /\ logRejected
    /\ searchLog = <<>>

\* C8: generateEmbeddings returns one vector per text in input order or
\* fails; on a count mismatch it fails, returns no vector, and no chunk of
\* that batch gets an embedding
C8_BatchAllOrNothing ==
    LET n == Len(lastBatch.chunks)
        r == lastBatch.result
    IN /\ r.ok => /\ Len(r.embeddings) = n
                  /\ \A j \in 1..n : r.embeddings[j] = EmbeddingOf(Content(lastBatch.chunks[j]))
       /\ ~r.ok => r.embeddings = <<>> /\ r.error # <<>>
       /\ (~lastBatch.remote.thrown /\ Len(lastBatch.remote.data) # n) =>
              /\ ~r.ok
              /\ \A j \in 1..n : embedding[lastBatch.chunks[j]] = NULL

C8_Witness ==
    /\ Len(lastBatch.chunks) = NumChunks
    /\ ~lastBatch.remote.thrown
    /\ Len(lastBatch.remote.data) = NumChunks - 1
    /\ failed = NumChunks
    /\ gmePc = "done"

\* C9: generateAnswer never returns an answer that is the placeholder
\* substituted for a missing or empty completion
C9_NoPlaceholderAnswer ==
    (pc = "done" /\ outcome = "answer") => response.answer # Placeholder

\* C10: a call ends as a complete response, the no-context response, or a
\* thrown failure without a response; a retrieval failure is thrown before
\* any generation call and is told apart from a generation failure by its
\* message
C10_ThreeOutcomes ==
    pc = "done" =>
        /\ outcome \in {"answer", "nocontext", "failed"}
        /\ outcome = "answer" =>
              /\ error = <<>>
              /\ DOMAIN response = {"answer", "question", "context", "contextCount",
                                    "confidence", "sources", "responseMode", "language"}
              /\ response.contextCount = Len(results)
              /\ Len(results) > 0
        /\ outcome = "nocontext" => (error = <<>> /\ response = createNoContextResponse(query))
        /\ outcome = "failed" =>
              /\ response = NoResponse
              /\ failedStage \in {"retrieval", "generation"}
              /\ failedStage = "retrieval" =>
                    (generationCalls = 0 /\ error[2] = "Search failed")
              /\ failedStage = "generation" =>
                    (generationCalls = 1 /\ error[2] # "Search failed")

C10_Witness ==
    /\ pc = "done"
    /\ outcome = "failed"
    /\ failedStage = "retrieval"
    /\ queryEmbedding # NULL

\* C11: a generateAnswer call that returns an answer appends exactly one
\* record to the log store (not zero, not two), and no step updates or deletes
\* a record: the log after a step starts with the log before it
C11_OneLogRecordPerAnswer ==
    /\ []((pc = "done" /\ outcome = "answer") => Len(searchLog) = 1)
    /\ [][/\ Len(searchLog') >= Len(searchLog)
          /\ SubSeq(searchLog', 1, Len(searchLog)) = searchLog]_vars

\* index of the first context record that comes from the document named name
FirstSeen(context, name) ==
    CHOOSE i \in DOMAIN context :
        /\ context[i].documentFilename = name
        /\ \A j \in 1..(i - 1) : context[j].documentFilename # name

\* C20: the sources of a returned response are the distinct document names of
\* its context, each once, in the order of first appearance; the list is empty
\* exactly when the context is empty
C20_SourcesAreDistinctNamesInOrder ==
    (pc = "done" /\ outcome \in {"answer", "nocontext"}) =>
        LET context == response.context
            sources == response.sources
        IN /\ Range(sources) = {context[i].documentFilename : i \in DOMAIN context}
           /\ \A i, j \in DOMAIN sources : i # j => sources[i] # sources[j]
           /\ \A i, j \in DOMAIN sources :
                  i < j => FirstSeen(context, sources[i]) < FirstSeen(context, sources[j])
           /\ (sources = <<>>) <=> (context = <<>>)

C20_Witness ==
    /\ pc = "done"
    /\ outcome = "answer"
    /\ Len(response.context) = 3
    /\ response.context[1].documentFilename = "b.pdf"
    /\ response.context[3].documentFilename = "a.pdf"
    /\ response.sources = <<"b.pdf", "a.pdf">>

\* ------------------------------------------------ the searches called directly
\* the vector the latest direct call searched with
CallVector ==
    IF searchCall.op = "findSimilarChunks" THEN embedding[searchCall.chunkId]
    ELSE searchCall.queryEmbedding

\* the chunks the latest direct call searches among
CallScope ==
    IF searchCall.op = "searchInDocument"
    THEN {c \in DOMAIN embedding : DocumentId(c) = searchCall.documentId}
    ELSE IF searchCall.op = "findSimilarChunks"
    THEN DOMAIN embedding \ {searchCall.chunkId}
    ELSE DOMAIN embedding

\* the chunks of the scope that match: embedded, similarity at least the threshold
CallMatching ==
    {c \in CallScope :
        /\ embedding[c] # NULL
        /\ 100 - CosineDistance(embedding[c], CallVector) >= searchCall.threshold}

\* the ids of the chunks the call returned, in order
CallIds == [i \in DOMAIN searchCall.results |-> searchCall.results[i].chunkId]

\* ids are the first min(limit, m) of the m candidates, closest first
FirstClosest(ids, candidates, limit) ==
    LET dist(c) == CosineDistance(embedding[c], CallVector)
    IN /\ Len(ids) = Min(limit, Cardinality(candidates))
       /\ Range(ids) \subseteq candidates
       /\ \A i, j \in DOMAIN ids : i < j => ids[i] # ids[j] /\ dist(ids[i]) <= dist(ids[j])
       /\ \A c \in candidates \ Range(ids) : \A i \in DOMAIN ids : dist(ids[i]) <= dist(c)

\* the call failed because the database did
RemoteFailure == ~searchCall.ok /\ \E cause \in RemoteErrors : searchCall.error[2] = cause[1]

\* everything the latest direct call can return when the table is emb
CallOutcomes(emb) ==
    IF searchCall.op = "searchDocuments"
    THEN searchDocuments(emb, searchCall.queryEmbedding,
                         [limit |-> searchCall.limit, threshold |-> searchCall.threshold])
    ELSE IF searchCall.op = "searchInDocument"
    THEN searchInDocument(searchCall.documentId, emb, searchCall.queryEmbedding,
                          searchCall.limit, searchCall.threshold)
    ELSE findSimilarChunks(searchCall.chunkId, emb, searchCall.limit, searchCall.threshold)

\* the id sequences of the outcomes that are results
OutcomeIds(outcomes) ==
    {[i \in DOMAIN o.results |-> o.results[i].chunkId] : o \in {x \in outcomes : x.ok}}

\* C12: no search (global, within a document, similar to a chunk) returns a
\* chunk without embedding, and each returns what it returns on the table with
\* the rows without embedding removed
C12_UnembeddedChunksExcluded ==
    searchCall.op # "none" =>
        /\ \A i \in DOMAIN CallIds : embedding[CallIds[i]] # NULL
        /\ CallOutcomes(embedding) =
             CallOutcomes(Restrict(embedding, {c \in DOMAIN embedding : embedding[c] # NULL}))

C12_Witness ==
    /\ searchCall.op = "searchInDocument"
    /\ searchCall.documentId = 1
    /\ searchCall.limit = 1
    /\ embedding[1] = NULL
    /\ CallIds = <<2>>

\* C13: a search with limit L returns the first min(L, m) of the m matching
\* chunks in ascending cosine distance, and returning fewer than L, or none, is
\* not an error
C13_FirstMatchesUpToLimit ==
    (searchCall.op \in {"searchDocuments", "searchInDocument"} /\ ~RemoteFailure) =>
        /\ searchCall.ok
        /\ FirstClosest(CallIds, CallMatching, searchCall.limit)

\* the source chunk of the latest findSimilarChunks call exists and is embedded
SourceUsable ==
    /\ searchCall.chunkId \in DOMAIN embedding
    /\ embedding[searchCall.chunkId] # NULL

\* C14: findSimilarChunks searches with the stored vector of the chunk, returns
\* the (at most limit) closest other chunks that pass the threshold, never the
\* chunk itself, and fails when the chunk is missing or has no embedding
C14_SimilarToChunk ==
    (searchCall.op = "findSimilarChunks" /\ ~RemoteFailure) =>
        /\ ~SourceUsable => (~searchCall.ok /\ searchCall.results = <<>>)
        /\ SourceUsable =>
              /\ searchCall.ok
              /\ searchCall.chunkId \notin Range(CallIds)
              /\ Len(CallIds) <= searchCall.limit
              /\ FirstClosest(CallIds, CallMatching, searchCall.limit)

\* C15: searchInDocument(d, ...) returns the chunks, in the order, that the
\* global search returns on the table holding only the chunks of d, and every
\* result belongs to d
C15_DocumentSearchEqualsGlobal ==
    searchCall.op = "searchInDocument" =>
        /\ \A i \in DOMAIN searchCall.results :
              searchCall.results[i].documentId = searchCall.documentId
        /\ OutcomeIds(searchInDocument(searchCall.documentId, embedding,
                                       searchCall.queryEmbedding, searchCall.limit,
                                       searchCall.threshold))
           = OutcomeIds(searchDocuments(Restrict(embedding, CallScope),
                                        searchCall.queryEmbedding,
                                        [limit |-> searchCall.limit,
                                         threshold |-> searchCall.threshold]))

\* ------------------------------------------------------------- the chunker
ChunkTextReturned == "chunks" \in DOMAIN chunkCall

\* C18: every chunk chunkText returns is whitespace-trimmed and longer than 50
\* characters, for every text; the empty text gives the empty sequence
C18_ChunksTrimmedAndLong ==
    ChunkTextReturned =>
        /\ \A i \in DOMAIN chunkCall.chunks :
              /\ Trim(chunkCall.chunks[i]) = chunkCall.chunks[i]
              /\ Len(chunkCall.chunks[i]) > 50
        /\ chunkCall.text = <<>> => chunkCall.chunks = <<>>

\* the positions of text where chunk occurs
Occurrences(text, chunk) ==
    {p \in 1..(Len(text) - Len(chunk) + 1) : SubSeq(text, p, p + Len(chunk) - 1) = chunk}

\* the positions of text that lie inside an occurrence of one of the chunks
Covered(text, chunks) ==
    UNION {UNION {p..(p + Len(chunks[k]) - 1) : p \in Occurrences(text, chunks[k])} :
             k \in DOMAIN chunks}

\* C19: for maxChunkSize >= 1 every character position of the text lies inside
\* at least one of the chunks chunkText returns
C19_ChunksCoverText ==
    (ChunkTextReturned /\ chunkCall.maxChunkSize >= 1) =>
        Covered(chunkCall.text, chunkCall.chunks) = 1..Len(chunkCall.text)

\* --------------------------------------------------------------- ingestion
\* C16: after any sequence of processDocument calls every stored chunk has
\* 0 <= start < end <= len(document.content) and content equal to
\* document.content[start:end]; a re-ingestion that succeeded left only the
\* chunks it created for the document
C16_ChunkOffsetsMatchDocument ==
    /\ \A row \in documentChunks :
          LET content == documents[row.documentId].content
          IN /\ 0 <= row.startPosition
             /\ row.startPosition < row.endPosition
             /\ row.endPosition <= Len(content)
             /\ row.content = substring(content, row.startPosition, row.endPosition)
    /\ lastIngest.success =>
          LET rows == {row \in documentChunks : row.documentId = lastIngest.documentId}
          IN /\ \A row \in rows : row.id >= lastIngest.firstChunkId
             /\ Cardinality(rows) = lastIngest.chunks

\* C17: once a chunk has an embedding no step writes its embedding column
\* again, also when two generateMissingEmbeddings runs overlap
C17_EmbeddingWrittenOnce ==
    [][\A c \in Chunks : embedding[c] # NULL => writes'[c] = writes[c]]_vars

\* ------------------------------------------- the stages of generateAnswer
\* the position of a stage in the order the claim gives
StageRank ==
    [idle |-> 0, embedding |-> 1, index |-> 2, logSearch |-> 3,
     generation |-> 4, logRag |-> 5, done |-> 6]

InteractionRecords == {i \in DOMAIN searchLog : "contextCount" \in DOMAIN searchLog[i].results}

StillWithoutEmbedding == {c \in Range(chunksWithoutEmbeddings) : embedding[c] = NULL}

\* C29: the report a generateMissingEmbeddings run returns agrees with the
\* store: chunksWithoutEmbeddings is the number of selected chunks that still
\* have no embedding at the end of the run, and processed is the number of
\* chunks that received an embedding during the run
C29_ReportMatchesStore ==
    (gmePc = "done" /\ report # NoReport) =>
        /\ report.chunksWithoutEmbeddings = Cardinality(StillWithoutEmbedding)
        /\ report.processed = Len(chunksWithoutEmbeddings) - Cardinality(StillWithoutEmbedding)

\* C24: a generateMissingEmbeddings run takes the chunks lacking an
\* embedding in consecutive batches of 10; a batch whose embedding call fails
\* has its chunks counted as failed and the next batch is still attempted;
\* the run ends with every batch attempted and processed + failed equal to
\* the number of chunks selected at the start
C24_FailedBatchDoesNotAbort ==
    /\ [](/\ batchStart % 10 = 0
          /\ gmePc \in {"batch", "update"} => batchStart < Len(chunksWithoutEmbeddings)
          /\ gmePc = "update" =>
                lastBatch.chunks = SubSeq(chunksWithoutEmbeddings, batchStart + 1,
                                          Min(batchStart + 10, Len(chunksWithoutEmbeddings)))
          /\ processed + failed <= Len(chunksWithoutEmbeddings)
          /\ gmePc = "done" =>
                /\ batchStart >= Len(chunksWithoutEmbeddings)
                /\ processed + failed = Len(chunksWithoutEmbeddings))
    /\ [][(gmePc = "batch" /\ gmePc' # "update") =>
             /\ failed' = failed + Min(10, Len(chunksWithoutEmbeddings) - batchStart)
             /\ processed' = processed
             /\ batchStart' = batchStart + 10
             /\ gmePc' = IF batchStart' < Len(chunksWithoutEmbeddings) THEN "batch" ELSE "done"]_vars

\* the first batch failed and a chunk of the third batch was embedded
C24_Witness ==
    /\ gmePc = "done"
    /\ Len(chunksWithoutEmbeddings) > 20
    /\ embedding[chunksWithoutEmbeddings[1]] = NULL
    /\ failed >= 10
    /\ embedding[chunksWithoutEmbeddings[21]] # NULL

\* ------------------------------------------------- the windows of the chunker
\* C25: the loop of chunkText ends for every text, maxChunkSize >= 1 and
\* overlap >= 0, overlap >= maxChunkSize included: every iteration sets the
\* next window start to max(previous end - overlap, previous start + 1), the
\* window starts strictly increase, and the loop has ended after at most
\* Len(text) iterations
C25_ChunkerTerminates ==
    (ChunkTextReturned /\ chunkCall.looped) =>
        LET windows == chunkCall.windows
            n == Len(windows)
        IN /\ chunkCall.startIndex >= Len(chunkCall.text)
           /\ n >= 1
           /\ n <= Len(chunkCall.text)
           /\ windows[1][1] = 0
           /\ \A i \in 1..n : windows[i][1] < Len(chunkCall.text)
           /\ \A i \in 1..(n - 1) :
                 /\ windows[i + 1][1] = Max(windows[i][2] - chunkCall.overlap, windows[i][1] + 1)
                 /\ windows[i + 1][1] > windows[i][1]
           /\ chunkCall.startIndex = Max(windows[n][2] - chunkCall.overlap, windows[n][1] + 1)

\* a call with overlap >= maxChunkSize whose loop took more than one iteration
C25_Witness ==
    /\ ChunkTextReturned
    /\ chunkCall.looped
    /\ chunkCall.overlap >= chunkCall.maxChunkSize
    /\ Len(chunkCall.windows) > 100

\* C26: the boundary adjustment only moves a window end backward: a window
\* starting at s whose raw end s + maxChunkSize is strictly inside the text
\* ends at e = s + maxChunkSize or just after a '.' or newline, with
\* s + maxChunkSize/2 < e <= s + maxChunkSize, and no returned chunk is longer
\* than maxChunkSize characters
C26_WindowEndMovesBackward ==
    (ChunkTextReturned /\ chunkCall.looped) =>
        /\ \A i \in DOMAIN chunkCall.windows :
              LET s == chunkCall.windows[i][1]
                  e == chunkCall.windows[i][2]
                  raw == s + chunkCall.maxChunkSize
              IN raw < Len(chunkCall.text) =>
                    /\ 2 * s + chunkCall.maxChunkSize < 2 * e
                    /\ e <= raw
                    /\ e = raw \/ chunkCall.text[e] \in {".", "\n"}
        /\ \A k \in DOMAIN chunkCall.chunks : Len(chunkCall.chunks[k]) <= chunkCall.maxChunkSize

\* ------------------------------------------------ failures of processDocument
\* C28: a processDocument call that returns success = false, whatever await
\* failed, leaves the stored documents and the stored chunks as they were
\* before the call
C28_FailedIngestChangesNothing ==
    [][(ingests' = ingests + 1 /\ ~lastIngest'.success) =>
          (documents' = documents /\ documentChunks' = documentChunks)]_vars

\* ------------------------------------------- processDocument calls that overlap
\* C27: when every processDocument call has returned, whatever the
\* interleaving of their steps was, the store holds at most one document per
\* file (filename and path) and the chunks of every document have pairwise
\* distinct chunk indices that are exactly 0..n-1
C27_OneDocumentPerFile ==
    (\A p \in Callers : calls[p].pc = "returned") =>
        /\ \A d, e \in DOMAIN documents :
              (/\ documents[d].filename = documents[e].filename
               /\ documents[d].dropboxPath = documents[e].dropboxPath) => d = e
        /\ \A d \in DOMAIN documents :
              LET rows == {row \in documentChunks : row.documentId = d}
              IN /\ \A r, q \in rows : r.chunkIndex = q.chunkIndex => r = q
                 /\ {row.chunkIndex : row \in rows} = 0..(Cardinality(rows) - 1)

\* ------------------------------------------------------ the Telegram bot
\* the command word of the update and the text after its first blank
UpdateCommand == toLowerCase(Split(update.text, {" "})[1])

\* C30: an update with text whose Telegram API calls all succeed gets
\* exactly one reply and no exception leaves processWebhookUpdate; a text
\* starting with '/' reaches generateAnswer only if it is /quick or /detailed
\* followed by a non-empty question; any other text makes exactly one
\* generateAnswer call; a failed generateAnswer gives exactly one error message
C30_OneReplyPerUpdate ==
    (botPc = "done" /\ update.hasText /\ ~deliveryFailed) =>
        /\ Len(replies) = 1
        /\ ~thrown
        /\ Len(ragCalls) <= 1
        /\ startsWith(update.text, <<"/">>) =>
              (ragCalls # <<>> =>
                  /\ UpdateCommand \in {<<"/", "q", "u", "i", "c", "k">>, <<"/", "d", "e", "t", "a", "i", "l", "e", "d">>}
                  /\ ragCalls[1].question # <<>>)
        /\ ~startsWith(update.text, <<"/">>) =>
              (Len(ragCalls) = 1 /\ ragCalls[1].question = update.text)
        /\ ragOutcome = "failed" => replies = <<"error">>

\* ------------------------------------------------------------- the quotes
\* the quote, in lower case, contains a keyword of the question
HasKeyword(quote, question) ==
    \E k \in DOMAIN QuestionKeywords(question) :
        includes(toLowerCase(quote), QuestionKeywords(question)[k])

\* C21: extractQuotes returns at most 3 quotes; a quote selected by keyword
\* matching is 30 to 150 characters long and contains at least one keyword of
\* the question (a token of the lowercased question longer than 3
\* characters); the fallback quotes, at most two sentences of the first
\* chunk of at most 150 characters each, are returned only when no quote
\* matched a keyword
C21_QuotesBoundedAndRelevant ==
    ("quotes" \in DOMAIN quoteCall) =>
        /\ Len(quoteCall.quotes) <= 3
        /\ ~quoteCall.fallback =>
              \A i \in DOMAIN quoteCall.quotes :
                  /\ Len(quoteCall.quotes[i]) >= 30
                  /\ Len(quoteCall.quotes[i]) <= 150
                  /\ HasKeyword(quoteCall.quotes[i], quoteCall.question)
        /\ quoteCall.fallback =>
              /\ Len(quoteCall.quotes) <= 2
              /\ \A i \in DOMAIN quoteCall.quotes : Len(quoteCall.quotes[i]) <= 150
              /\ \A c \in DOMAIN quoteCall.context :
                    ChunkQuotes(quoteCall.context[c].content,
                                QuestionKeywords(quoteCall.question)) = <<>>

\* ------------------------------------------------------ the cosine
Negated(v) == [i \in DOMAIN v |-> -v[i]]

ZeroVector(v) == \A i \in DOMAIN v : v[i] = 0

\* C22: calculateCosineSimilarity rejects vectors of different lengths with
\* an error; it returns 0 when one of the vectors has norm zero; otherwise it
\* returns a value between -1 and 1, which is 1 for a vector and itself and
\* -1 for a vector and its negation
C22_CosineInRangeAndExactOnItself ==
    ("a" \in DOMAIN cosineCall) =>
        LET a == cosineCall.a
            b == cosineCall.b
        IN IF Len(a) # Len(b) THEN "thrown" \in DOMAIN cosineCall
           ELSE /\ "returned" \in DOMAIN cosineCall
                /\ (ZeroVector(a) \/ ZeroVector(b)) => cosineCall.returned = FloatZero
                /\ FloatInUnitRange(cosineCall.returned)
                /\ (~ZeroVector(a) /\ b = a) => cosineCall.returned = FloatOne
                /\ (~ZeroVector(a) /\ b = Negated(a)) => cosineCall.returned = FloatMinusOne

\* the part of C22 about the rejected lengths and the zero norms
CosineDegenerateCases ==
    ("a" \in DOMAIN cosineCall) =>
        LET a == cosineCall.a
            b == cosineCall.b
        IN IF Len(a) # Len(b) THEN "thrown" \in DOMAIN cosineCall
           ELSE /\ "returned" \in DOMAIN cosineCall
                /\ (ZeroVector(a) \/ ZeroVector(b)) => cosineCall.returned = FloatZero

====
